---------------------------- MODULE Spec2Model ----------------------------
(***************************************************************************)
(* A model of the CFPM evaluation harness of scripts/cfpm_api_eval.py and   *)
(* scripts/cfpm_resume_eval.py: the event-stream decoders, the quality      *)
(* evaluator, the API/storage cross-validation and the run of main().       *)
(*                                                                         *)
(* Python strings are TLA+ strings in the state; every string operation of  *)
(* the code (lower, strip, startswith, endswith, in, the two regular        *)
(* expressions, sorted) is computed on the string's characters, which the   *)
(* table Chars gives for each string the model uses.                        *)
(***************************************************************************)
EXTENDS Integers, Sequences, FiniteSets, TLC

(***************************************************************************)
(* Characters of the strings of the model.                                  *)
(***************************************************************************)
\* BEGIN Chars
CharsTable ==
       ("active" :> <<"a", "c", "t", "i", "v", "e">>)
    @@ ("ACTIVE" :> <<"A", "C", "T", "I", "V", "E">>)
    @@ ("stale" :> <<"s", "t", "a", "l", "e">>)
    @@ ("artifact_path" :> <<"a", "r", "t", "i", "f", "a", "c", "t", "_", "p", "a", "t", "h">>)
    @@ ("invalid_path" :> <<"i", "n", "v", "a", "l", "i", "d", "_", "p", "a", "t", "h">>)
    @@ ("note" :> <<"n", "o", "t", "e">>)
    @@ ("artifact" :> <<"a", "r", "t", "i", "f", "a", "c", "t">>)
    @@ ("onedrive" :> <<"o", "n", "e", "d", "r", "i", "v", "e">>)
    @@ ("desktop" :> <<"d", "e", "s", "k", "t", "o", "p">>)
    @@ ("accepted" :> <<"a", "c", "c", "e", "p", "t", "e", "d">>)
    @@ ("users" :> <<"u", "s", "e", "r", "s">>)
    @@ ("C:\\Users\\bob\\Desktop" :> <<"C", ":", "\\", "U", "s", "e", "r", "s", "\\", "b", "o", "b", "\\", "D", "e", "s", "k", "t", "o", "p">>)
    @@ ("c:\\users\\amy\\desktop\\" :> <<"c", ":", "\\", "u", "s", "e", "r", "s", "\\", "a", "m", "y", "\\", "d", "e", "s", "k", "t", "o", "p", "\\">>)
    @@ ("c:\\users\\bob\\desktop" :> <<"c", ":", "\\", "u", "s", "e", "r", "s", "\\", "b", "o", "b", "\\", "d", "e", "s", "k", "t", "o", "p">>)
    @@ ("C:\\Users\\bob\\OneDrive\\Desktop" :> <<"C", ":", "\\", "U", "s", "e", "r", "s", "\\", "b", "o", "b", "\\", "O", "n", "e", "D", "r", "i", "v", "e", "\\", "D", "e", "s", "k", "t", "o", "p">>)
    @@ ("2024/03/01" :> <<"2", "0", "2", "4", "/", "0", "3", "/", "0", "1">>)
    @@ ("2024-3-1" :> <<"2", "0", "2", "4", "-", "3", "-", "1">>)
    @@ ("2024/03/011" :> <<"2", "0", "2", "4", "/", "0", "3", "/", "0", "1", "1">>)
    @@ ("ACCEPTED" :> <<"A", "C", "C", "E", "P", "T", "E", "D">>)
    @@ ("rejected" :> <<"r", "e", "j", "e", "c", "t", "e", "d">>)
    @@ ("pending" :> <<"p", "e", "n", "d", "i", "n", "g">>)
    @@ ("echo %USERPROFILE%" :> <<"e", "c", "h", "o", " ", "%", "U", "S", "E", "R", "P", "R", "O", "F", "I", "L", "E", "%">>)
    @@ ("test-path D:\\" :> <<"t", "e", "s", "t", "-", "p", "a", "t", "h", " ", "D", ":", "\\">>)
    @@ ("dir" :> <<"d", "i", "r">>)
    @@ ("$env:USERPROFILE" :> <<"$", "e", "n", "v", ":", "U", "S", "E", "R", "P", "R", "O", "F", "I", "L", "E">>)
    @@ ("%USERPROFILE%" :> <<"%", "U", "S", "E", "R", "P", "R", "O", "F", "I", "L", "E", "%">>)
    @@ ("GetFolderPath('Desktop')" :> <<"G", "e", "t", "F", "o", "l", "d", "e", "r", "P", "a", "t", "h", "(", "'", "D", "e", "s", "k", "t", "o", "p", "'", ")">>)
    @@ ("User Shell Folders" :> <<"U", "s", "e", "r", " ", "S", "h", "e", "l", "l", " ", "F", "o", "l", "d", "e", "r", "s">>)
    @@ ("Test-Path" :> <<"T", "e", "s", "t", "-", "P", "a", "t", "h">>)
    @@ ("Get-ChildItem C:\\Users" :> <<"G", "e", "t", "-", "C", "h", "i", "l", "d", "I", "t", "e", "m", " ", "C", ":", "\\", "U", "s", "e", "r", "s">>)
    @@ ("user" :> <<"u", "s", "e", "r">>)
    @@ ("tool" :> <<"t", "o", "o", "l">>)
    @@ ("None" :> <<"N", "o", "n", "e">>)
    @@ ("a01" :> <<"a", "0", "1">>)
    @@ ("a02" :> <<"a", "0", "2">>)
    @@ ("a03" :> <<"a", "0", "3">>)
    @@ ("a04" :> <<"a", "0", "4">>)
    @@ ("a05" :> <<"a", "0", "5">>)
    @@ ("a06" :> <<"a", "0", "6">>)
    @@ ("a07" :> <<"a", "0", "7">>)
    @@ ("a08" :> <<"a", "0", "8">>)
    @@ ("a09" :> <<"a", "0", "9">>)
    @@ ("a10" :> <<"a", "1", "0">>)
    @@ ("a11" :> <<"a", "1", "1">>)
    @@ ("a12" :> <<"a", "1", "2">>)
    @@ ("a13" :> <<"a", "1", "3">>)
    @@ ("a14" :> <<"a", "1", "4">>)
    @@ ("a15" :> <<"a", "1", "5">>)
    @@ ("a16" :> <<"a", "1", "6">>)
    @@ ("a17" :> <<"a", "1", "7">>)
    @@ ("a18" :> <<"a", "1", "8">>)
    @@ ("a19" :> <<"a", "1", "9">>)
    @@ ("a20" :> <<"a", "2", "0">>)
    @@ ("a21" :> <<"a", "2", "1">>)
    @@ ("a22" :> <<"a", "2", "2">>)
    @@ ("a23" :> <<"a", "2", "3">>)
    @@ ("a24" :> <<"a", "2", "4">>)
    @@ ("d01" :> <<"d", "0", "1">>)
    @@ ("d02" :> <<"d", "0", "2">>)
    @@ ("d03" :> <<"d", "0", "3">>)
    @@ ("d04" :> <<"d", "0", "4">>)
    @@ ("d05" :> <<"d", "0", "5">>)
    @@ ("d06" :> <<"d", "0", "6">>)
    @@ ("d07" :> <<"d", "0", "7">>)
    @@ ("d08" :> <<"d", "0", "8">>)
    @@ ("d09" :> <<"d", "0", "9">>)
    @@ ("d10" :> <<"d", "1", "0">>)
    @@ ("d11" :> <<"d", "1", "1">>)
    @@ ("d12" :> <<"d", "1", "2">>)
    @@ ("d13" :> <<"d", "1", "3">>)
    @@ ("d14" :> <<"d", "1", "4">>)
    @@ ("d15" :> <<"d", "1", "5">>)
    @@ ("d16" :> <<"d", "1", "6">>)
    @@ ("d17" :> <<"d", "1", "7">>)
    @@ ("d18" :> <<"d", "1", "8">>)
    @@ ("d19" :> <<"d", "1", "9">>)
    @@ ("d20" :> <<"d", "2", "0">>)
    @@ ("d21" :> <<"d", "2", "1">>)
    @@ ("d22" :> <<"d", "2", "2">>)
    @@ ("d23" :> <<"d", "2", "3">>)
    @@ ("d24" :> <<"d", "2", "4">>)
    @@ ("s01" :> <<"s", "0", "1">>)
    @@ ("s02" :> <<"s", "0", "2">>)
    @@ ("s03" :> <<"s", "0", "3">>)
    @@ ("data:" :> <<"d", "a", "t", "a", ":">>)
    @@ ("Message" :> <<"M", "e", "s", "s", "a", "g", "e">>)
    @@ ("Finish" :> <<"F", "i", "n", "i", "s", "h">>)
    @@ ("Error" :> <<"E", "r", "r", "o", "r">>)
    @@ ("\n" :> <<"\n">>)
    @@ (": ping\n" :> <<":", " ", "p", "i", "n", "g", "\n">>)
    @@ ("data:\n" :> <<"d", "a", "t", "a", ":", "\n">>)
    @@ ("data: {\"type\":\n" :> <<"d", "a", "t", "a", ":", " ", "{", "\"", "t", "y", "p", "e", "\"", ":", "\n">>)
    @@ ("data: 42\n" :> <<"d", "a", "t", "a", ":", " ", "4", "2", "\n">>)
    @@ ("data: {}\n" :> <<"d", "a", "t", "a", ":", " ", "{", "}", "\n">>)
    @@ ("data: {\"type\":\"Message\"}\n" :> <<"d", "a", "t", "a", ":", " ", "{", "\"", "t", "y", "p", "e", "\"", ":", "\"", "M", "e", "s", "s", "a", "g", "e", "\"", "}", "\n">>)
    @@ (" data:{\"type\":\"Finish\",\"reason\":\"stop\"} \r\n" :> <<" ", "d", "a", "t", "a", ":", "{", "\"", "t", "y", "p", "e", "\"", ":", "\"", "F", "i", "n", "i", "s", "h", "\"", ",", "\"", "r", "e", "a", "s", "o", "n", "\"", ":", "\"", "s", "t", "o", "p", "\"", "}", " ", "\r", "\n">>)
    @@ ("data: {\"type\":\"Error\",\"error\":\"boom\"}\n" :> <<"d", "a", "t", "a", ":", " ", "{", "\"", "t", "y", "p", "e", "\"", ":", "\"", "E", "r", "r", "o", "r", "\"", ",", "\"", "e", "r", "r", "o", "r", "\"", ":", "\"", "b", "o", "o", "m", "\"", "}", "\n">>)
    @@ ("{\"type\":" :> <<"{", "\"", "t", "y", "p", "e", "\"", ":">>)
    @@ ("42" :> <<"4", "2">>)
    @@ ("{}" :> <<"{", "}">>)
    @@ ("{\"type\":\"Message\"}" :> <<"{", "\"", "t", "y", "p", "e", "\"", ":", "\"", "M", "e", "s", "s", "a", "g", "e", "\"", "}">>)
    @@ ("{\"type\":\"Finish\",\"reason\":\"stop\"}" :> <<"{", "\"", "t", "y", "p", "e", "\"", ":", "\"", "F", "i", "n", "i", "s", "h", "\"", ",", "\"", "r", "e", "a", "s", "o", "n", "\"", ":", "\"", "s", "t", "o", "p", "\"", "}">>)
    @@ ("{\"type\":\"Error\",\"error\":\"boom\"}" :> <<"{", "\"", "t", "y", "p", "e", "\"", ":", "\"", "E", "r", "r", "o", "r", "\"", ",", "\"", "e", "r", "r", "o", "r", "\"", ":", "\"", "b", "o", "o", "m", "\"", "}">>)

Chars(s) == CharsTable[s]

\* ord(c) for the characters of the table
OrdTable ==
       ("\n" :> 10) @@ ("\r" :> 13) @@ (" " :> 32) @@ ("\"" :> 34) @@ ("$" :> 36) @@ ("%" :> 37)
    @@ ("'" :> 39) @@ ("(" :> 40) @@ (")" :> 41) @@ ("," :> 44) @@ ("-" :> 45) @@ ("/" :> 47)
    @@ ("0" :> 48) @@ ("1" :> 49) @@ ("2" :> 50) @@ ("3" :> 51) @@ ("4" :> 52) @@ ("5" :> 53)
    @@ ("6" :> 54) @@ ("7" :> 55) @@ ("8" :> 56) @@ ("9" :> 57) @@ (":" :> 58) @@ ("A" :> 65)
    @@ ("C" :> 67) @@ ("D" :> 68) @@ ("E" :> 69) @@ ("F" :> 70) @@ ("G" :> 71) @@ ("I" :> 73)
    @@ ("L" :> 76) @@ ("M" :> 77) @@ ("N" :> 78) @@ ("O" :> 79) @@ ("P" :> 80) @@ ("R" :> 82)
    @@ ("S" :> 83) @@ ("T" :> 84) @@ ("U" :> 85) @@ ("V" :> 86) @@ ("\\" :> 92) @@ ("_" :> 95)
    @@ ("a" :> 97) @@ ("b" :> 98) @@ ("c" :> 99) @@ ("d" :> 100) @@ ("e" :> 101) @@ ("f" :> 102)
    @@ ("g" :> 103) @@ ("h" :> 104) @@ ("i" :> 105) @@ ("j" :> 106) @@ ("k" :> 107) @@ ("l" :> 108)
    @@ ("m" :> 109) @@ ("n" :> 110) @@ ("o" :> 111) @@ ("p" :> 112) @@ ("r" :> 114) @@ ("s" :> 115)
    @@ ("t" :> 116) @@ ("u" :> 117) @@ ("v" :> 118) @@ ("y" :> 121) @@ ("{" :> 123) @@ ("}" :> 125)

Ord(c) == OrdTable[c]
\* END Chars

(***************************************************************************)
(* str methods.                                                             *)
(***************************************************************************)
\* str.isspace for one character (the ASCII whitespace the streams carry).
IsSpace(c) == c \in {" ", "\t", "\n", "\r"}

\* str.lower for one character.
LowerChar(c) ==
    CASE c = "A" -> "a" [] c = "B" -> "b" [] c = "C" -> "c" [] c = "D" -> "d"
      [] c = "E" -> "e" [] c = "F" -> "f" [] c = "G" -> "g" [] c = "H" -> "h"
      [] c = "I" -> "i" [] c = "J" -> "j" [] c = "K" -> "k" [] c = "L" -> "l"
      [] c = "M" -> "m" [] c = "N" -> "n" [] c = "O" -> "o" [] c = "P" -> "p"
      [] c = "Q" -> "q" [] c = "R" -> "r" [] c = "S" -> "s" [] c = "T" -> "t"
      [] c = "U" -> "u" [] c = "V" -> "v" [] c = "W" -> "w" [] c = "X" -> "x"
      [] c = "Y" -> "y" [] c = "Z" -> "z" [] OTHER -> c

\* str.lower
Lower(cs) == [i \in 1..Len(cs) |-> LowerChar(cs[i])]

RECURSIVE LStrip(_)
LStrip(cs) == IF cs # <<>> /\ IsSpace(Head(cs)) THEN LStrip(Tail(cs)) ELSE cs

RECURSIVE RStrip(_)
RStrip(cs) ==
    IF cs # <<>> /\ IsSpace(cs[Len(cs)])
    THEN RStrip(SubSeq(cs, 1, Len(cs) - 1))
    ELSE cs

\* str.strip
Strip(cs) == RStrip(LStrip(cs))

\* str.startswith, str.endswith, and the substring test `p in cs`
StartsWith(cs, p) == Len(cs) >= Len(p) /\ SubSeq(cs, 1, Len(p)) = p
EndsWith(cs, p) == Len(cs) >= Len(p) /\ SubSeq(cs, Len(cs) - Len(p) + 1, Len(cs)) = p
Contains(cs, p) == \E i \in 0..(Len(cs) - Len(p)) : SubSeq(cs, i + 1, i + Len(p)) = p

\* Python's None (JSON null, or the default of dict.get for a missing key):
\* isinstance(v, str) is false of it.
None == "<None>"
IsStr(v) == v # None

(***************************************************************************)
(* The regular expressions of cfpm_api_eval.py.                             *)
(***************************************************************************)
IsDigit(c) == c \in {"0", "1", "2", "3", "4", "5", "6", "7", "8", "9"}
IsDateSep(c) == c \in {".", "/", "-"}
IsLetter(c) ==
    LowerChar(c) \in {"a", "b", "c", "d", "e", "f", "g", "h", "i", "j", "k", "l", "m",
                      "n", "o", "p", "q", "r", "s", "t", "u", "v", "w", "x", "y", "z"}

\* DATE_ONLY_RE.match(cs): ^\d{4}[./-]\d{1,2}[./-]\d{1,2}$ on a stripped string
\* (so the newline that $ tolerates at the end cannot occur).
DateOnlyMatch(cs) ==
    \E m \in 1..2, d \in 1..2 :
        /\ Len(cs) = 4 + 1 + m + 1 + d
        /\ \A i \in 1..4 : IsDigit(cs[i])
        /\ IsDateSep(cs[5])
        /\ \A i \in 6..(5 + m) : IsDigit(cs[i])
        /\ IsDateSep(cs[6 + m])
        /\ \A i \in (7 + m)..(6 + m + d) : IsDigit(cs[i])

\* DESKTOP_WRONG_RE.match(cs): ^[A-Za-z]:\\Users\\[^\\]+\\Desktop\\?$, re.IGNORECASE,
\* on a stripped string. k is the backslash that ends the [^\\]+ segment.
DesktopWrongMatch(cs) ==
    /\ Len(cs) >= 11
    /\ IsLetter(cs[1])
    /\ cs[2] = ":"
    /\ cs[3] = "\\"
    /\ Lower(SubSeq(cs, 4, 8)) = Chars("users")
    /\ cs[9] = "\\"
    /\ \E k \in 11..Len(cs) :
        /\ cs[k] = "\\"
        /\ \A i \in 10..(k - 1) : cs[i] # "\\"
        /\ LET rest == Lower(SubSeq(cs, k + 1, Len(cs)))
           IN  rest = Chars("desktop") \/ rest = Chars("desktop") \o <<"\\">>

(***************************************************************************)
(* Program constants.                                                       *)
(***************************************************************************)
PROBE_MARKERS ==
    << "$env:USERPROFILE", "%USERPROFILE%", "GetFolderPath('Desktop')",
       "User Shell Folders", "Test-Path", "Get-ChildItem C:\\Users" >>

(***************************************************************************)
(* evaluate_quality and score_probe_commands (cfpm_api_eval.py).            *)
(* A fact is [category, content, status, source], a candidate               *)
(* [decision, content], a tool gate [path]: the keys the code reads.        *)
(***************************************************************************)
\* A plausible slip: the status filter dropped.
IsActiveFact_Unfiltered(f) == TRUE

\* str(f.get("status", "")).lower() == "active"
IsActiveFact(f) == Lower(Chars(f.status)) = Chars("active")

IsArtifact(f) == Contains(Lower(Chars(f.category)), Chars("artifact"))

IsInvalidPath(f) == Contains(Lower(Chars(f.category)), Chars("invalid_path"))

IsDateContent(v) == IsStr(v) /\ DateOnlyMatch(Strip(Chars(v)))

IsWrongDesktopContent(v) == IsStr(v) /\ DesktopWrongMatch(Strip(Chars(v)))

IsOneDriveDesktopContent(v) ==
    /\ IsStr(v)
    /\ Contains(Lower(Chars(v)), Chars("onedrive"))
    /\ EndsWith(Lower(Chars(v)), Chars("desktop"))

HasDateContent(f) == IsDateContent(f.content)
HasWrongDesktopContent(f) == IsWrongDesktopContent(f.content)
HasOneDriveDesktopContent(f) == IsOneDriveDesktopContent(f.content)
HasWrongDesktopPath_AnyDesktop(g) ==
    IsStr(g.path) /\ EndsWith(Lower(Strip(Chars(g.path))), Chars("desktop"))

HasWrongDesktopPath(g) == IsWrongDesktopContent(g.path)

\* A plausible slip: the decision not looked at.
IsAcceptedDateCandidate_AnyDecision(c) == IsDateContent(c.content)

IsAcceptedDateCandidate(c) ==
    /\ Lower(Chars(c.decision)) = Chars("accepted")
    /\ IsDateContent(c.content)

\* A plausible slip: the markers compared without lowering either side.
IsProbeCommand_CaseSensitive(cmd) ==
    \E i \in 1..Len(PROBE_MARKERS) : Contains(Chars(cmd), Chars(PROBE_MARKERS[i]))

\* any(marker.lower() in lowered for marker in PROBE_MARKERS)
IsProbeCommand(cmd) ==
    \E i \in 1..Len(PROBE_MARKERS) :
        Contains(Lower(Chars(cmd)), Lower(Chars(PROBE_MARKERS[i])))

\* score_probe_commands
ScoreProbeCommands(cmds) ==
    LET probes == SelectSeq(cmds, IsProbeCommand)
    IN  [probeCount |-> Len(probes), probeCommands |-> probes]

\* The condition of `if wrong_desktop and not any(...)`: the marker is looked up
\* for wrong_desktop[0] only, and the contents are compared lowered, not stripped.
WrongDesktopUnmarked(wrong_desktop, active_invalids) ==
    /\ wrong_desktop # <<>>
    /\ ~ \E i \in 1..Len(active_invalids) :
            /\ IsStr(active_invalids[i].content)
            /\ Lower(Chars(active_invalids[i].content))
                 = Lower(Chars(wrong_desktop[1].content))

IssueIf_Always(cond, code) == <<code>>

IssueIf(cond, code) == IF cond THEN <<code>> ELSE <<>>

EvaluateQuality(facts_api, candidates_api, tool_gates, second_turn_commands) ==
    LET active_facts == SelectSeq(facts_api, IsActiveFact)
        active_artifacts == SelectSeq(active_facts, IsArtifact)
        active_invalids == SelectSeq(active_facts, IsInvalidPath)
        date_facts == SelectSeq(active_facts, HasDateContent)
        wrong_desktop == SelectSeq(active_artifacts, HasWrongDesktopContent)
        onedrive_desktop == SelectSeq(active_artifacts, HasOneDriveDesktopContent)
        accepted_date_candidates == SelectSeq(candidates_api, IsAcceptedDateCandidate)
        probe_stats == ScoreProbeCommands(second_turn_commands)
        second_turn_repeated_probe ==
            probe_stats.probeCount > 0 /\ Len(onedrive_desktop) > 0
        wrong_gate_paths == SelectSeq(tool_gates, HasWrongDesktopPath)
        issues ==
               IssueIf(date_facts # <<>>, "date_noise_fact_active")
            \o IssueIf(accepted_date_candidates # <<>>, "date_noise_candidate_accepted")
            \o IssueIf(WrongDesktopUnmarked(wrong_desktop, active_invalids),
                       "wrong_desktop_without_invalid_marker")
            \o IssueIf(second_turn_repeated_probe,
                       "second_turn_repeated_probe_despite_memory")
            \o IssueIf(wrong_gate_paths # <<>>, "tool_gate_reused_wrong_path")
    IN  [ activeFactCount |-> Len(active_facts),
          activeArtifactCount |-> Len(active_artifacts),
          activeInvalidPathCount |-> Len(active_invalids),
          dateNoiseFacts |-> date_facts,
          acceptedDateCandidates |-> accepted_date_candidates,
          wrongDesktopArtifacts |-> wrong_desktop,
          oneDriveDesktopArtifacts |-> onedrive_desktop,
          probeStatsSecondTurn |-> probe_stats,
          wrongToolGatePaths |-> wrong_gate_paths,
          issues |-> issues ]

(***************************************************************************)
(* Inputs of the evaluator.                                                 *)
(***************************************************************************)
MaxFacts == 3

Fact(cat, content, status) ==
    [category |-> cat, content |-> content, status |-> status, source |-> "tool"]

FactPool ==
    { Fact("artifact_path", "C:\\Users\\bob\\Desktop", "active"),
      Fact("artifact_path", "c:\\users\\amy\\desktop\\", "active"),
      Fact("invalid_path", "c:\\users\\bob\\desktop", "active"),
      Fact("artifact_path", "C:\\Users\\bob\\OneDrive\\Desktop", "active"),
      Fact("invalid_path", "2024-3-1", "active"),
      Fact("note", "2024/03/01", "ACTIVE"),
      Fact("invalid_path", "C:\\Users\\bob\\Desktop", "stale"),
      Fact("artifact_path", "C:\\Users\\bob\\Desktop", "stale") }

SeqsUpTo(S, n) == UNION { [1..k -> S] : k \in 0..n }

FactLists == SeqsUpTo(FactPool, MaxFacts)

Candidate(decision, content) == [decision |-> decision, content |-> content]

CandidateLists ==
    { <<>>,
      << Candidate("accepted", "2024-3-1") >>,
      << Candidate("ACCEPTED", "2024-3-1") >>,
      << Candidate("rejected", "2024/03/01"), Candidate("accepted", None),
         Candidate("accepted", "2024/03/011") >> }

ToolGateLists ==
    { <<>>,
      << [path |-> None], [path |-> "C:\\Users\\bob\\OneDrive\\Desktop"] >>,
      << [path |-> None], [path |-> "C:\\Users\\bob\\Desktop"] >> }

CommandLists ==
    { <<>>,
      << "echo %USERPROFILE%" >>,
      << "dir", "test-path D:\\" >> }

(***************************************************************************)
(* The event-stream decoders: ApiClient.stream_reply (cfpm_api_eval.py) and *)
(* ApiClient.reply_sse (cfpm_resume_eval.py).                               *)
(***************************************************************************)
\* A parsed JSON value: its kind, and for an object the keys the code reads
\* (None when the key is missing).
JsonObject(type, error, reason) ==
    [kind |-> "object", type |-> type, error |-> error, reason |-> reason]
JsonOther(kind) == [kind |-> kind, type |-> None, error |-> None, reason |-> None]

\* json.loads on the payloads the streams of the model carry; any other text
\* raises json.JSONDecodeError ("malformed").
JsonLoads(cs) ==
    CASE cs = Chars("{\"type\":\"Message\"}") -> JsonObject("Message", None, None)
      [] cs = Chars("{\"type\":\"Finish\",\"reason\":\"stop\"}") -> JsonObject("Finish", None, "stop")
      [] cs = Chars("{\"type\":\"Error\",\"error\":\"boom\"}") -> JsonObject("Error", "boom", None)
      [] cs = Chars("{}") -> JsonObject(None, None, None)
      [] cs = Chars("42") -> JsonOther("number")
      [] OTHER -> JsonOther("malformed")

\* maybe_json: the parsed value, or the text itself when it does not parse.
MaybeJson(cs) == IF JsonLoads(cs).kind = "malformed" THEN JsonOther("str") ELSE JsonLoads(cs)

\* isinstance(parsed, dict)
IsDict(v) == v.kind = "object"

\* A plausible slip: only Error ends the stream.
IsTerminalType_ErrorOnly(t) == t = "Error"

\* A plausible slip: an Error event does not end the stream.
IsTerminalType_FinishOnly(t) == t = "Finish"

\* parsed.get("type") in ("Finish", "Error")
IsTerminalType(t) == t \in {"Finish", "Error"}

\* One iteration of `for raw in resp` of stream_reply on the line raw, with the
\* events collected so far; late is time.monotonic() - started > timeout_sec.
StreamReplyLine(evs, raw, late) ==
    LET line == Strip(Chars(raw))
        payload == Strip(SubSeq(line, 6, Len(line)))
        parsed == MaybeJson(payload)
    IN  IF late THEN [events |-> evs, next |-> "break"]
        ELSE IF line = <<>> \/ ~ StartsWith(line, Chars("data:"))
        THEN [events |-> evs, next |-> "continue"]
        ELSE IF payload = <<>> THEN [events |-> evs, next |-> "continue"]
        ELSE IF IsDict(parsed)
        THEN [events |-> Append(evs, parsed),
              next |-> IF IsTerminalType(parsed.type) THEN "break" ELSE "continue"]
        ELSE [events |-> evs, next |-> "continue"]

\* The locals of reply_sse before its loop.
SseStart ==
    [eventTypes |-> <<>>, assistantText |-> <<>>, cfpmSystemNotifications |-> <<>>,
     toolRequestCount |-> 0, error |-> None, finishReason |-> None]

\* One iteration of `for raw in resp` of reply_sse. obj.get on a value that is not
\* a dict raises AttributeError, which reply_sse does not catch.
ReplySseLine(acc, raw) ==
    LET line == Strip(Chars(raw))
        blob == Strip(SubSeq(line, 6, Len(line)))
        obj == JsonLoads(blob)
        typed == [acc EXCEPT !.eventTypes = Append(@, obj.type)]
    IN  IF ~ StartsWith(line, Chars("data:")) THEN [acc |-> acc, next |-> "continue"]
        ELSE IF blob = <<>> THEN [acc |-> acc, next |-> "continue"]
        ELSE IF obj.kind = "malformed" THEN [acc |-> acc, next |-> "continue"]
        ELSE IF ~ IsDict(obj) THEN [acc |-> acc, next |-> "AttributeError"]
        ELSE IF ~ IsStr(obj.type) THEN [acc |-> acc, next |-> "continue"]
        ELSE IF obj.type = "Error"
        THEN [acc |-> [typed EXCEPT !.error = obj.error], next |-> "break"]
        ELSE IF obj.type = "Finish"
        THEN [acc |-> [typed EXCEPT !.finishReason = obj.reason], next |-> "break"]
        ELSE [acc |-> typed, next |-> "continue"]

\* The raw lines a reply stream of the model may carry.
Lines ==
    { "\n", ": ping\n", "data:\n", "data: {\"type\":\n", "data: 42\n", "data: {}\n",
      "data: {\"type\":\"Message\"}\n",
      " data:{\"type\":\"Finish\",\"reason\":\"stop\"} \r\n",
      "data: {\"type\":\"Error\",\"error\":\"boom\"}\n" }

MaxLines == 4

(***************************************************************************)
(* The API/storage cross-validation of main (cfpm_api_eval.py).             *)
(***************************************************************************)
\* str(v) of a value that is a str or None
Str(v) == IF v = None THEN "None" ELSE v

\* The identity key of a fact or of a memory_facts row.
FactKey(f) == << Str(f.category), Str(f.content), Str(f.status), Str(f.source) >>

FactKeys(fs) == { FactKey(fs[i]) : i \in 1..Len(fs) }

\* a < b on strings: by code points, a proper prefix first.
StrLess(a, b) ==
    LET ca == Chars(a)
        cb == Chars(b)
    IN  \E i \in 1..Len(cb) :
            /\ \A j \in 1..(i - 1) : j <= Len(ca) /\ ca[j] = cb[j]
            /\ i > Len(ca) \/ (i <= Len(ca) /\ Ord(ca[i]) < Ord(cb[i]))

\* a < b on tuples of strings of one length
TupleLess(a, b) ==
    \E i \in 1..Len(a) :
        /\ \A j \in 1..(i - 1) : a[j] = b[j]
        /\ a[i] # b[i]
        /\ StrLess(a[i], b[i])

\* sorted(list(S)) for a set S of tuples of strings
RECURSIVE Sorted(_)
Sorted(S) ==
    IF S = {} THEN <<>>
    ELSE LET x == CHOOSE y \in S : TRUE
             rest == Sorted(S \ {x})
             p == Cardinality({ i \in 1..Len(rest) : TupleLess(rest[i], x) })
         IN  SubSeq(rest, 1, p) \o <<x>> \o SubSeq(rest, p + 1, Len(rest))

\* The cap of the slices [:20]
DeltaCap == 20

\* s[:n]
FirstN(s, n) == SubSeq(s, 1, IF Len(s) < n THEN Len(s) ELSE n)

\* A plausible slip: dbOnly computed with the operands of apiOnly.
ApiDbFactDelta_SameOperands(facts_api, db_facts) ==
    [ apiOnly |-> FirstN(Sorted(FactKeys(facts_api) \ FactKeys(db_facts)), DeltaCap),
      dbOnly |-> FirstN(Sorted(FactKeys(facts_api) \ FactKeys(db_facts)), DeltaCap) ]

\* report["apiDbFactDelta"]
ApiDbFactDelta(facts_api, db_facts) ==
    [ apiOnly |-> FirstN(Sorted(FactKeys(facts_api) \ FactKeys(db_facts)), DeltaCap),
      dbOnly |-> FirstN(Sorted(FactKeys(db_facts) \ FactKeys(facts_api)), DeltaCap) ]

\* Inputs of the cross-validation: the API and the store share the first
\* `shared` facts (the store's copies with status dbStatus) and hold facts of
\* their own besides.
MaxOwnFacts == 21
MaxSharedFacts == 2

ApiContents ==
    << "a01", "a02", "a03", "a04", "a05", "a06", "a07", "a08", "a09", "a10", "a11", "a12",
       "a13", "a14", "a15", "a16", "a17", "a18", "a19", "a20", "a21", "a22", "a23", "a24" >>
DbContents ==
    << "d01", "d02", "d03", "d04", "d05", "d06", "d07", "d08", "d09", "d10", "d11", "d12",
       "d13", "d14", "d15", "d16", "d17", "d18", "d19", "d20", "d21", "d22", "d23", "d24" >>
SharedContents == << "s01", "s02", "s03" >>

\* Most recent first, as the rows come: the contents in descending order.
FactsOf(contents, n, status) ==
    [ i \in 1..n |-> Fact("artifact_path", contents[n + 1 - i], status) ]

VARIABLES
    script,       \* "api": cfpm_api_eval.py, "resume": cfpm_resume_eval.py
    facts,        \* facts_api
    candidates,   \* candidates_api
    toolGates,    \* tool_gates
    commands,     \* commands_second_turn
    quality,      \* report["quality"], when set
    dbRows,       \* db_rows["facts"]
    delta,        \* report["apiDbFactDelta"], when set
    wire,         \* the raw lines the server has sent on the open /reply response
    nread,        \* how many of them the read loop has taken
    events,       \* events of stream_reply
    sse,          \* the locals of reply_sse
    rstate,       \* the streaming call: "idle", "open", "returned" or "raised"
    expired,      \* the call's wall-clock timeout has elapsed
    closed,       \* the server has closed the response
    exc,          \* the kind of the exception the call raised, or None
    pc,           \* the step of main() about to run
    args,         \* the parsed command line
    server_proc,  \* server_proc / proc: None, or "spawned"
    procCalls,    \* the calls main made on the child process, in order
    report,       \* the report dict
    written,      \* the report file, when written
    exitCode,     \* main's return value, when returned
    raised,       \* the exception raised inside main's try block, or None
    requests,     \* the HTTP requests sent so far
    polls,        \* the /status polls of the readiness wait that did not succeed
    lastStatus,   \* the last round of the readiness wait: the poll's answer, and
                  \* whether its deadline check found the deadline passed
    sessionAfter, \* session_after
    memoryReply,  \* what request_json returned to the last memory read, if it returned
    host,         \* what the store locator looks at: args.path_root, the environment
                  \* variables PATH_ROOT and APPDATA, and the files that exist
    store,        \* the tables memory_facts and memory_candidates of sessions.db, most
                  \* recent row first
    cfgReads      \* inside select_provider_model: what its /config/read calls have met

qualityVars == << facts, candidates, toolGates, commands, quality >>
deltaVars == << dbRows, delta >>
streamVars == << wire, nread, events, sse, rstate, expired, closed, exc >>
runVars == << pc, args, server_proc, procCalls, report, written, exitCode, raised,
             requests, polls, lastStatus, sessionAfter, memoryReply, host, store, cfgReads >>
vars == << script, qualityVars, deltaVars, streamVars, runVars >>

\* A key of a dict that may be absent: <<>> when absent, <<v>> when set to v.
Absent == <<>>
Some(v) == <<v>>

(***************************************************************************)
(* main(): exceptions, requests, responses and the report.                  *)
(***************************************************************************)
Exception(kind, msg) == [kind |-> kind, msg |-> msg]

\* f"{type(exc).__name__}: {exc}"
ErrorText(e) == e.kind \o ": " \o e.msg

ExitStatus_AlwaysOne(success) == 1

ExitStatus_AlwaysZero(success) == 0

\* return 0 if report.get("success") else 1
ExitStatus(success) == IF success = Some(TRUE) THEN 0 ELSE 1

\* What urlopen raises when the service answers with an error status or cannot
\* be reached.
ApiErrors ==
    { Exception("HTTPError", "HTTP Error 500: Internal Server Error"),
      Exception("URLError", "<urlopen error [Errno 111] Connection refused>") }

\* A request built by request_json / req_json / stream_reply / reply_sse: it
\* carries the X-Secret-Key header.
JsonRequest(path) == [path |-> path, secret |-> TRUE]

\* The request of a readiness poll: built without headers.
StatusRequest == [path |-> "/status", secret |-> FALSE]

\* What request_json returns: None for an empty body, else the decoded JSON.
NoBody == [body |-> FALSE, json |-> <<>>]
Body(v) == [body |-> TRUE, json |-> v]

\* A plausible slip: the `or []` left out, the missing answer kept as the list's
\* only entry.
OrEmpty_MissingKept(resp) == IF resp.body THEN resp.json ELSE << None >>

\* resp or []
OrEmpty(resp) == IF (~ resp.body) \/ resp.json = <<>> THEN <<>> ELSE resp.json

\* a or b, on values that are None or a non-empty string
Or(a, b) == IF a # None THEN a ELSE b

\* The report dict as main() creates it; optional keys are Absent until set.
\* report["quality"] and report["apiDbFactDelta"] are the variables quality
\* and delta.
NewReport(sid) ==
    [ steps |-> <<>>, server |-> Absent, provider |-> Absent, sessionId |-> sid,
      resumed |-> Absent, turn1 |-> Absent, turn2 |-> Absent, reply |-> Absent,
      apiSnapshot |-> Absent, dbPath |-> Absent, dbSnapshot |-> Absent,
      finishedAt |-> FALSE, success |-> Absent, error |-> Absent ]

\* No /status poll made yet.
NoStatus == [reply |-> None, late |-> FALSE]

\* Path(root) / "data" / "sessions" / "sessions.db"
UnderRoot(root) == root \o "/data/sessions/sessions.db"

\* Path(appdata) / "AGIME" / "agime" / "data" / "sessions" / "sessions.db"
UnderAppData(appdata) == appdata \o "/AGIME/agime/data/sessions/sessions.db"

HardcodedDb == "C:/Users/jsjm/AppData/Roaming/AGIME/agime/data/sessions/sessions.db"

\* if root: candidates.append(path)
CandidateIf(root, path) == IF root # None THEN << path >> ELSE <<>>

\* A plausible slip: the last candidate returned without looking whether it exists.
FirstExisting_LastUnchecked(cands, exists) ==
    IF \E i \in 1..Len(cands) : cands[i] \in exists
    THEN cands[CHOOSE i \in 1..Len(cands) :
                   /\ cands[i] \in exists
                   /\ \A j \in 1..(i - 1) : cands[j] \notin exists]
    ELSE cands[Len(cands)]

\* for path in candidates: if path.exists(): return path / return None
FirstExisting(cands, exists) ==
    IF \E i \in 1..Len(cands) : cands[i] \in exists
    THEN cands[CHOOSE i \in 1..Len(cands) :
                   /\ cands[i] \in exists
                   /\ \A j \in 1..(i - 1) : cands[j] \notin exists]
    ELSE None

\* find_sessions_db of cfpm_api_eval.py
find_sessions_db(h) ==
    FirstExisting(   CandidateIf(h.path_root, UnderRoot(h.path_root))
                  \o CandidateIf(h.PATH_ROOT, UnderRoot(h.PATH_ROOT))
                  \o CandidateIf(h.APPDATA, UnderAppData(h.APPDATA))
                  \o << HardcodedDb >>,
                  h.exists)

\* find_db of cfpm_resume_eval.py
find_db(h) ==
    FirstExisting(   CandidateIf(h.path_root, UnderRoot(h.path_root))
                  \o CandidateIf(h.APPDATA, UnderAppData(h.APPDATA))
                  \o << HardcodedDb >>,
                  h.exists)

\* A row of a table of sessions.db: the session it belongs to and its columns.
Row(sid, cols) == [session_id |-> sid, cols |-> cols]

EmptyStore == [memory_facts |-> <<>>, memory_candidates |-> <<>>]

\* No /config/read call made.
NoReads == [provider |-> <<>>, model |-> <<>>]

\* The machines the locators are tried on: each root given or not, every set of
\* the four stores existing.
Roots ==
    [ path_root : { None, "D:/root" },
      PATH_ROOT : { None, "E:/env" },
      APPDATA : { None, "C:/Users/bob/AppData/Roaming" } ]
Stores ==
    { UnderRoot("D:/root"), UnderRoot("E:/env"),
      UnderAppData("C:/Users/bob/AppData/Roaming"), HardcodedDb }
Hosts ==
    { [path_root |-> r.path_root, PATH_ROOT |-> r.PATH_ROOT, APPDATA |-> r.APPDATA,
       exists |-> ex] : r \in Roots, ex \in SUBSET Stores }

\* A machine without roots or stores, and the machines of the runs: no root
\* given, the last-resort store missing or there.
BareHost == [path_root |-> None, PATH_ROOT |-> None, APPDATA |-> None, exists |-> {}]
RunHosts == { BareHost, [BareHost EXCEPT !.exists = { HardcodedDb }] }

\* main() standing at step p with nothing done before it.
RunAt(p) ==
    /\ pc = p
    /\ args = [no_start_server |-> TRUE, provider |-> None, model |-> None]
    /\ server_proc = None /\ procCalls = <<>>
    /\ report = NewReport(Some("sid-1"))
    /\ written = Absent /\ exitCode = Absent /\ raised = Absent
    /\ requests = {} /\ polls = 0 /\ sessionAfter = NoBody
    /\ lastStatus = NoStatus
    /\ memoryReply = Absent
    /\ host = BareHost
    /\ store = EmptyStore
    /\ cfgReads = NoReads

(***************************************************************************)
(* The streaming call, from urlopen's return to the call's return or raise. *)
(***************************************************************************)
StreamIdle ==
    /\ wire = <<>> /\ nread = 0 /\ events = <<>> /\ sse = SseStart
    /\ rstate = "idle" /\ expired = FALSE /\ closed = FALSE /\ exc = None

\* urlopen returned the response: the loop is about to read its first line.
StreamOpen ==
    /\ wire = <<>> /\ nread = 0 /\ events = <<>> /\ sse = SseStart
    /\ rstate = "open" /\ expired = FALSE /\ closed = FALSE /\ exc = None

\* The server sends the line raw and the loop takes it.
ReadLine(L, n) ==
    \E raw \in L :
        /\ rstate = "open"
        /\ Len(wire) < n
        /\ wire' = Append(wire, raw)
        /\ nread' = nread + 1
        /\ IF script = "api"
           THEN LET r == StreamReplyLine(events, raw, expired)
                IN  /\ events' = r.events
                    /\ rstate' = IF r.next = "break" THEN "returned" ELSE "open"
                    /\ UNCHANGED << sse, exc >>
           ELSE LET r == ReplySseLine(sse, raw)
                IN  /\ sse' = r.acc
                    /\ rstate' = CASE r.next = "break" -> "returned"
                                   [] r.next = "continue" -> "open"
                                   [] OTHER -> "raised"
                    /\ exc' = IF r.next \in {"break", "continue"} THEN None ELSE r.next
                    /\ UNCHANGED events
        /\ UNCHANGED << script, expired, closed, qualityVars, deltaVars, runVars >>

\* The server sends a line after the call has ended: nobody reads it.
SendUnread(L, n) ==
    \E raw \in L :
        /\ rstate \in {"returned", "raised"}
        /\ ~ closed
        /\ Len(wire) < n
        /\ wire' = Append(wire, raw)
        /\ UNCHANGED << script, nread, events, sse, rstate, expired, closed, exc, qualityVars, deltaVars, runVars >>

\* The server closes the response: `for raw in resp` ends and the call returns.
StreamClosed ==
    /\ rstate = "open"
    /\ rstate' = "returned"
    /\ closed' = TRUE
    /\ UNCHANGED << script, wire, nread, events, sse, expired, exc, qualityVars, deltaVars, runVars >>

\* The wall clock passes the call's timeout while the response is open.
Tick ==
    /\ rstate = "open"
    /\ ~ expired
    /\ expired' = TRUE
    /\ UNCHANGED << script, wire, nread, events, sse, rstate, closed, exc, qualityVars, deltaVars, runVars >>

\* No byte arrives for the socket timeout urlopen was given (timeout_sec): the
\* blocked read raises socket.timeout (TimeoutError), out of the call.
ReadTimesOut ==
    /\ rstate = "open"
    /\ rstate' = "raised"
    /\ exc' = "TimeoutError"
    /\ expired' = TRUE
    /\ UNCHANGED << script, wire, nread, events, sse, closed, qualityVars, deltaVars, runVars >>

DecodeInit ==
    /\ script \in {"api", "resume"}
    /\ StreamOpen
    /\ RunAt(IF script = "api" THEN "turn1" ELSE "reply")
    /\ facts = <<>> /\ candidates = <<>> /\ toolGates = <<>> /\ commands = <<>>
    /\ quality = Absent
    /\ dbRows = <<>> /\ delta = Absent

DecodeNext ==
    \/ ReadLine(Lines, MaxLines)
    \/ SendUnread(Lines, MaxLines)
    \/ StreamClosed
    \/ Tick
    \/ ReadTimesOut

SpecDecode == DecodeInit /\ [][DecodeNext]_vars

(***************************************************************************)
(* The evaluator applied to every input of the pools.                       *)
(***************************************************************************)
QualityInit ==
    /\ script = "api"
    /\ facts \in FactLists
    /\ candidates \in CandidateLists
    /\ toolGates \in ToolGateLists
    /\ commands \in CommandLists
    /\ quality = Absent
    /\ dbRows = <<>> /\ delta = Absent
    /\ StreamIdle
    /\ RunAt("evaluate")

\* quality = evaluate_quality(facts_api, candidates_api, tool_gates, commands_second_turn)
\* report["quality"] = quality
Evaluate ==
    /\ pc = "evaluate"
    /\ quality' = Some(EvaluateQuality(facts, candidates, toolGates, commands))
    /\ pc' = "find_db"
    /\ UNCHANGED << script, facts, candidates, toolGates, commands, deltaVars, streamVars,
                    args, server_proc, procCalls, report, written, exitCode, raised,
                    requests, polls, lastStatus, sessionAfter, memoryReply, host, store, cfgReads >>

QualityNext == Evaluate

SpecQuality == QualityInit /\ [][QualityNext]_vars

(***************************************************************************)
(* The cross-validation applied to fact lists of every size up to the       *)
(* bounds.                                                                  *)
(***************************************************************************)
DeltaInit ==
    /\ script = "api"
    /\ \E a \in 0..MaxOwnFacts, d \in 0..MaxOwnFacts, s \in 0..MaxSharedFacts,
          dbStatus \in {"active", "stale"} :
          /\ facts = FactsOf(SharedContents, s, "active") \o FactsOf(ApiContents, a, "active")
          /\ dbRows = FactsOf(DbContents, d, "active") \o FactsOf(SharedContents, s, dbStatus)
    /\ candidates = <<>> /\ toolGates = <<>> /\ commands = <<>>
    /\ quality = Absent
    /\ delta = Absent
    /\ StreamIdle
    /\ RunAt("delta")

\* A plausible slip: a difference between the API and the store reported as a
\* quality issue.
CrossValidate_FlagsDelta ==
    /\ pc = "delta"
    /\ delta' = Some(ApiDbFactDelta(facts, dbRows))
    /\ quality' = IF quality # Absent /\ ApiDbFactDelta(facts, dbRows).dbOnly # <<>>
                  THEN Some([quality[1] EXCEPT !.issues = Append(@, "api_db_fact_delta")])
                  ELSE quality
    /\ pc' = "succeed"
    /\ UNCHANGED << script, facts, candidates, toolGates, commands, dbRows, streamVars,
                    args, server_proc, procCalls, report, written, exitCode, raised,
                    requests, polls, lastStatus, sessionAfter, memoryReply, host, store,
                    cfgReads >>

\* report["apiDbFactDelta"] = {...}
CrossValidate ==
    /\ pc = "delta"
    /\ delta' = Some(ApiDbFactDelta(facts, dbRows))
    /\ pc' = "succeed"
    /\ UNCHANGED << script, qualityVars, dbRows, streamVars,
                    args, server_proc, procCalls, report, written, exitCode, raised,
                    requests, polls, lastStatus, sessionAfter, memoryReply, host, store, cfgReads >>

DeltaNext == CrossValidate

SpecDelta == DeltaInit /\ [][DeltaNext]_vars

(***************************************************************************)
(* main() of cfpm_api_eval.py and of cfpm_resume_eval.py, step by step.     *)
(* pc names the step about to run. An exception raised inside the try       *)
(* block moves pc to "except".                                              *)
(***************************************************************************)
MaxPolls == 2
MaxRunLines == 2
TailCap == 30

IsApi == script = "api"

Raise(e) == raised' = Some(e) /\ pc' = "except"

\* if not exe.exists(): raise FileNotFoundError(...)
ExeNotFoundMessage ==
    IF IsApi THEN "server exe not found: agimed.exe" ELSE "server exe missing: agimed.exe"

\* A plausible slip: the server spawned before the executable is looked for.
StartServer_SpawnsFirst ==
    /\ pc = "start"
    /\ IF args.no_start_server
       THEN /\ pc' = "wait"
            /\ UNCHANGED << server_proc, raised >>
       ELSE \E exists \in BOOLEAN :
               /\ server_proc' = "spawned"
               /\ IF exists
                  THEN pc' = "wait" /\ UNCHANGED raised
                  ELSE Raise(Exception("FileNotFoundError", ExeNotFoundMessage))
    /\ UNCHANGED << script, qualityVars, deltaVars, streamVars, args, procCalls, report,
                    written, exitCode, requests, polls, lastStatus, sessionAfter,
                    memoryReply, host, store, cfgReads >>

\* The first step of the try block: spawn the server unless --no-start-server.
StartServer ==
    /\ pc = "start"
    /\ IF args.no_start_server
       THEN /\ pc' = "wait"
            /\ UNCHANGED << server_proc, raised >>
       ELSE \E exists \in BOOLEAN :
               IF exists
               THEN /\ server_proc' = "spawned"
                    /\ pc' = "wait"
                    /\ UNCHANGED raised
               ELSE /\ Raise(Exception("FileNotFoundError", ExeNotFoundMessage))
                    /\ UNCHANGED server_proc
    /\ UNCHANGED << script, qualityVars, deltaVars, streamVars, args, procCalls, report,
                    written, exitCode, requests, polls, lastStatus, sessionAfter, memoryReply, host, store, cfgReads >>

\* What a /status poll meets: HTTP 200, another status, or a transport error.
StatusReplies == { "200", "503", "error" }

\* The readiness wait returns: main records the step.
WaitReturns ==
    /\ report' = IF IsApi
                 THEN [report EXCEPT !.steps =
                          Append(@, IF args.no_start_server THEN "server_reused"
                                                             ELSE "server_started")]
                 ELSE [report EXCEPT !.server =
                          Some(IF args.no_start_server THEN "reused" ELSE "started")]
    /\ pc' = IF IsApi THEN "select" ELSE "resume"
    /\ polls' = 0
    /\ UNCHANGED raised

WaitTimesOut ==
    /\ Raise(Exception("TimeoutError",
                       IF IsApi THEN "server /status did not become ready in time"
                                ELSE "/status not ready"))
    /\ polls' = 0
    /\ UNCHANGED report

WaitAgain ==
    /\ polls < MaxPolls
    /\ polls' = polls + 1
    /\ UNCHANGED << pc, report, raised >>

IsReady_AnyAnswer(reply) == reply # "error"

\* if code == 200: return
IsReady(reply) == reply = "200"

\* One round of wait_for_status: poll, return on 200, else raise when the
\* deadline has passed (late), else sleep and poll again.
WaitForStatus ==
    /\ pc = "wait" /\ IsApi
    /\ requests' = requests \cup { StatusRequest }
    /\ \E reply \in StatusReplies, late \in BOOLEAN :
          IF IsReady(reply)
          THEN WaitReturns /\ lastStatus' = [reply |-> reply, late |-> FALSE]
          ELSE /\ lastStatus' = [reply |-> reply, late |-> late]
               /\ IF late THEN WaitTimesOut ELSE WaitAgain
    /\ UNCHANGED << script, qualityVars, deltaVars, streamVars, args, server_proc,
                    procCalls, written, exitCode, sessionAfter, memoryReply, host, store, cfgReads >>

\* One round of wait_status: raise when the deadline has passed (late), else
\* poll, return on 200, else (after a sleep when the poll raised) go round again.
WaitStatus ==
    /\ pc = "wait" /\ ~ IsApi
    /\ \E late \in BOOLEAN :
          IF late
          THEN /\ WaitTimesOut
               /\ lastStatus' = [lastStatus EXCEPT !.late = TRUE]
               /\ UNCHANGED requests
          ELSE /\ requests' = requests \cup { StatusRequest }
               /\ \E reply \in StatusReplies :
                     /\ lastStatus' = [reply |-> reply, late |-> FALSE]
                     /\ IF IsReady(reply) THEN WaitReturns ELSE WaitAgain
    /\ UNCHANGED << script, qualityVars, deltaVars, streamVars, args, server_proc,
                    procCalls, written, exitCode, sessionAfter, memoryReply, host, store, cfgReads >>

\* What a /config/read call meets: a value, no value, or an error.
CfgReplies == { "value", "none", "error" }

\* A plausible slip: the exception of the call let through instead of caught.
ReadCfgValue_ErrorKept(reply, value) ==
    CASE reply = "value" -> value
      [] reply = "error" -> "error"
      [] OTHER -> None

\* read_cfg_value: the value when there is one; None otherwise, an exception of
\* the call included.
ReadCfgValue(reply, value) == IF reply = "value" THEN value ELSE None

\* The calls of `arg or read_cfg_value(k1) or read_cfg_value(k2)`: none when the
\* argument is given, the second only when the first returned None.
ReadsOf(arg, r1, r2, value) ==
    IF arg # None THEN <<>>
    ELSE IF ReadCfgValue(r1, value) # None THEN << r1 >>
    ELSE << r1, r2 >>

\* arg or read_cfg_value(k1) or read_cfg_value(k2), on the replies of the calls made
Resolved(arg, replies, value) ==
    IF arg # None THEN arg
    ELSE Or(ReadCfgValue(replies[1], value),
            IF Len(replies) = 2 THEN ReadCfgValue(replies[2], value) ELSE None)

\* select_provider_model, its /config/read calls: for the provider, then for the
\* model.
ReadCfgValues ==
    /\ pc = "select"
    /\ \E r1 \in CfgReplies, r2 \in CfgReplies, r3 \in CfgReplies, r4 \in CfgReplies :
          cfgReads' = [ provider |-> ReadsOf(args.provider, r1, r2, "openai"),
                        model |-> ReadsOf(args.model, r3, r4, "gpt-4o") ]
    /\ requests' = requests \cup
                   ( IF args.provider = None \/ args.model = None
                     THEN { JsonRequest("/config/read") } ELSE {} )
    /\ pc' = "resolve"
    /\ UNCHANGED << script, qualityVars, deltaVars, streamVars, args, server_proc,
                    procCalls, report, written, exitCode, raised, polls, lastStatus,
                    sessionAfter, memoryReply, host, store >>

\* select_provider_model, its end: raise when the provider or the model is not
\* resolved, else return them; main records them in the report.
SelectProviderModel ==
    /\ pc = "resolve"
    /\ LET provider == Resolved(args.provider, cfgReads.provider, "openai")
           model == Resolved(args.model, cfgReads.model, "gpt-4o")
       IN  IF provider = None \/ model = None
           THEN /\ Raise(Exception("RuntimeError",
                    "provider/model not resolved; pass --provider and --model explicitly or configure them"))
                /\ UNCHANGED report
           ELSE /\ report' = [report EXCEPT !.provider = Some(<< provider, model >>)]
                /\ pc' = "agent_start"
                /\ UNCHANGED raised
    /\ cfgReads' = NoReads
    /\ UNCHANGED << script, qualityVars, deltaVars, streamVars, args, server_proc,
                    procCalls, written, exitCode, requests, polls, lastStatus,
                    sessionAfter, memoryReply, host, store >>

\* session = request_json("POST", "/agent/start", ...); session_id = session["id"]
AgentStart ==
    /\ pc = "agent_start"
    /\ requests' = requests \cup { JsonRequest("/agent/start") }
    /\ \/ \E e \in ApiErrors : Raise(e) /\ UNCHANGED report
       \/ \E session \in { "nobody", "noid", "ok" } :
             CASE session = "nobody" ->
                    /\ Raise(Exception("TypeError", "'NoneType' object is not subscriptable"))
                    /\ UNCHANGED report
               [] session = "noid" ->
                    /\ Raise(Exception("KeyError", "'id'"))
                    /\ UNCHANGED report
               [] OTHER ->
                    /\ report' = [report EXCEPT !.sessionId = Some("sid-1"),
                                                !.steps = Append(@, "session_started")]
                    /\ pc' = "update_provider"
                    /\ UNCHANGED raised
    /\ UNCHANGED << script, qualityVars, deltaVars, streamVars, args, server_proc,
                    procCalls, written, exitCode, polls, lastStatus, sessionAfter, memoryReply, host, store, cfgReads >>

UpdateProvider ==
    /\ pc = "update_provider"
    /\ requests' = requests \cup { JsonRequest("/agent/update_provider") }
    /\ \/ \E e \in ApiErrors : Raise(e) /\ UNCHANGED report
       \/ /\ report' = [report EXCEPT !.steps = Append(@, "provider_updated")]
          /\ pc' = "turn1"
          /\ UNCHANGED raised
    /\ UNCHANGED << script, qualityVars, deltaVars, streamVars, args, server_proc,
                    procCalls, written, exitCode, polls, lastStatus, sessionAfter, memoryReply, host, store, cfgReads >>

\* resumed = req_json("POST", "/agent/resume", ...); report["resumed"] = {...}
AgentResume ==
    /\ pc = "resume"
    /\ requests' = requests \cup { JsonRequest("/agent/resume") }
    /\ \/ \E e \in ApiErrors : Raise(e) /\ UNCHANGED report
       \/ \E isDict \in BOOLEAN :
             /\ report' = [report EXCEPT !.resumed =
                              Some(IF isDict THEN "session-1" ELSE None)]
             /\ pc' = "reply"
             /\ UNCHANGED raised
    /\ UNCHANGED << script, qualityVars, deltaVars, streamVars, args, server_proc,
                    procCalls, written, exitCode, polls, lastStatus, sessionAfter, memoryReply, host, store, cfgReads >>

InTurn == pc \in { "turn1", "turn2", "reply" }

\* The streaming call sends its request: urlopen raises, or returns the open
\* response.
OpenReply ==
    /\ InTurn /\ rstate = "idle"
    /\ requests' = requests \cup { JsonRequest("/reply") }
    /\ \/ \E e \in ApiErrors : Raise(e) /\ UNCHANGED rstate
       \/ rstate' = "open" /\ UNCHANGED << pc, raised >>
    /\ UNCHANGED << script, qualityVars, deltaVars, wire, nread, events, sse, expired,
                    closed, exc, args, server_proc, procCalls, report, written, exitCode,
                    polls, lastStatus, sessionAfter, memoryReply, host, store, cfgReads >>

\* The locals of a streaming call are gone once it has ended.
StreamReset ==
    /\ wire' = <<>> /\ nread' = 0 /\ events' = <<>> /\ sse' = SseStart
    /\ rstate' = "idle" /\ expired' = FALSE /\ closed' = FALSE /\ exc' = None

\* A plausible slip: the Error event's message not looked for.
FirstError_Ignored(evs) == None

\* next((e.get("error") for e in events if e.get("type") == "Error"), None)
FirstError(evs) ==
    LET errs == SelectSeq(evs, LAMBDA e : e.type = "Error")
    IN  IF errs = <<>> THEN None ELSE errs[1].error

\* report["turn1"] / report["turn2"], without assistantTexts
TurnResult(evs) ==
    [ eventCount |-> Len(evs),
      eventTypes |-> [i \in 1..Len(evs) |-> evs[i].type],
      error |-> FirstError(evs) ]

AfterTurn_SnapshotAfterTurn1(p) == IF p = "reply" THEN "facts" ELSE "session"

\* The statement after a streaming call: turn 2 after turn 1, the session read
\* after turn 2; in cfpm_resume_eval.py the facts read after the reply.
AfterTurn(p) ==
    CASE p = "turn1" -> "turn2"
      [] p = "turn2" -> "session"
      [] OTHER -> "facts"

\* The streaming call returned: main records the turn and goes on.
TurnReturns ==
    /\ InTurn /\ rstate = "returned"
    /\ report' = CASE pc = "turn1" -> [report EXCEPT !.turn1 = Some(TurnResult(events))]
                   [] pc = "turn2" -> [report EXCEPT !.turn2 = Some(TurnResult(events))]
                   [] OTHER -> [report EXCEPT !.reply = Some(sse)]
    /\ pc' = AfterTurn(pc)
    /\ StreamReset
    /\ UNCHANGED << script, qualityVars, deltaVars, args, server_proc, procCalls, written,
                    exitCode, raised, requests, polls, lastStatus, sessionAfter, memoryReply, host, store, cfgReads >>

StreamErrorMessage(kind) ==
    IF kind = "TimeoutError" THEN "timed out"
    ELSE "'int' object has no attribute 'get'"

\* The streaming call raised: the exception leaves it and reaches main's handler.
TurnRaises ==
    /\ InTurn /\ rstate = "raised"
    /\ Raise(Exception(exc, StreamErrorMessage(exc)))
    /\ StreamReset
    /\ UNCHANGED << script, qualityVars, deltaVars, args, server_proc, procCalls, report,
                    written, exitCode, requests, polls, lastStatus, sessionAfter, memoryReply, host, store, cfgReads >>

\* The lines the service sends during a run.
RunLines ==
    { ": ping\n",
      "data: {\"type\":\"Message\"}\n",
      " data:{\"type\":\"Finish\",\"reason\":\"stop\"} \r\n",
      "data: {\"type\":\"Error\",\"error\":\"boom\"}\n" }

\* The answers of the reads: no body, an empty list, or a list. The session is
\* given by the commands of its tool requests.
SessionReplies == { NoBody, Body(<< "echo %USERPROFILE%" >>) }
FactReplies == { NoBody, Body(<<>>), Body(<< Fact("artifact_path", "C:\\Users\\bob\\Desktop", "active") >>) }
CandidateReplies == { NoBody, Body(<<>>), Body(<< Candidate("accepted", "2024-3-1") >>) }
ToolGateReplies == { NoBody, Body(<<>>), Body(<< [path |-> "C:\\Users\\bob\\Desktop"] >>) }
DbFactRows == { <<>>, << Fact("artifact_path", "C:\\Users\\bob\\Desktop", "stale") >> }

\* session_after = request_json("GET", f"/sessions/{session_id}")
ReadSession ==
    /\ pc = "session"
    /\ requests' = requests \cup { JsonRequest("/sessions/{id}") }
    /\ \/ \E e \in ApiErrors : Raise(e) /\ UNCHANGED sessionAfter
       \/ \E resp \in SessionReplies :
             /\ sessionAfter' = resp
             /\ pc' = "facts"
             /\ UNCHANGED raised
    /\ UNCHANGED << script, qualityVars, deltaVars, streamVars, args, server_proc,
                    procCalls, report, written, exitCode, polls, lastStatus, memoryReply, host, store, cfgReads >>

\* facts = request_json("GET", ".../memory/facts") or []
ReadFacts ==
    /\ pc = "facts"
    /\ requests' = requests \cup { JsonRequest("/sessions/{id}/memory/facts") }
    /\ \/ \E e \in ApiErrors : Raise(e) /\ UNCHANGED facts /\ memoryReply' = Absent
       \/ \E resp \in FactReplies :
             /\ memoryReply' = Some(resp)
             /\ facts' = OrEmpty(resp)
             /\ pc' = "candidates"
             /\ UNCHANGED raised
    /\ UNCHANGED << script, candidates, toolGates, commands, quality, deltaVars,
                    streamVars, args, server_proc, procCalls, report, written, exitCode,
                    polls, lastStatus, sessionAfter, host, store, cfgReads >>

\* candidates = request_json("GET", ".../memory/candidates?limit=...") or []
ReadCandidates ==
    /\ pc = "candidates"
    /\ requests' = requests \cup { JsonRequest("/sessions/{id}/memory/candidates") }
    /\ \/ \E e \in ApiErrors : Raise(e) /\ UNCHANGED candidates /\ memoryReply' = Absent
       \/ \E resp \in CandidateReplies :
             /\ memoryReply' = Some(resp)
             /\ candidates' = OrEmpty(resp)
             /\ pc' = "gates"
             /\ UNCHANGED raised
    /\ UNCHANGED << script, facts, toolGates, commands, quality, deltaVars,
                    streamVars, args, server_proc, procCalls, report, written, exitCode,
                    polls, lastStatus, sessionAfter, host, store, cfgReads >>

\* tool_gates = request_json("GET", ".../memory/tool-gates?limit=...") or []
\* cfpm_resume_eval.py then sets report["api"].
ReadToolGates ==
    /\ pc = "gates"
    /\ requests' = requests \cup { JsonRequest("/sessions/{id}/memory/tool-gates") }
    /\ \/ \E e \in ApiErrors : Raise(e) /\ UNCHANGED << toolGates, report >> /\ memoryReply' = Absent
       \/ \E resp \in ToolGateReplies :
             /\ memoryReply' = Some(resp)
             /\ toolGates' = OrEmpty(resp)
             /\ IF IsApi
                THEN pc' = "commands" /\ UNCHANGED report
                ELSE /\ pc' = "find_db"
                     /\ report' = [report EXCEPT !.apiSnapshot =
                                      Some([ factCount |-> Len(facts),
                                             candidateCount |-> Len(candidates),
                                             gateCount |-> Len(OrEmpty(resp)) ])]
             /\ UNCHANGED raised
    /\ UNCHANGED << script, facts, candidates, commands, quality, deltaVars,
                    streamVars, args, server_proc, procCalls, written, exitCode,
                    polls, lastStatus, sessionAfter, host, store, cfgReads >>

\* extract_tool_commands_from_session(session_after or {})
ExtractToolCommands(resp) == IF resp.body THEN resp.json ELSE <<>>

\* s[-n:]
LastN(s, n) == IF Len(s) <= n THEN s ELSE SubSeq(s, Len(s) - n + 1, Len(s))

\* commands_second_turn = commands_all[-30:]; report["apiSnapshot"] = {...}
SnapshotCommands ==
    /\ pc = "commands"
    /\ commands' = LastN(ExtractToolCommands(sessionAfter), TailCap)
    /\ report' = [report EXCEPT !.apiSnapshot =
                     Some([ factsCount |-> Len(facts),
                            candidatesCount |-> Len(candidates),
                            toolGateCount |-> Len(toolGates),
                            toolCommandsCaptured |-> Len(ExtractToolCommands(sessionAfter)) ])]
    /\ pc' = "evaluate"
    /\ UNCHANGED << script, facts, candidates, toolGates, quality, deltaVars, streamVars,
                    args, server_proc, procCalls, written, exitCode, raised, requests,
                    polls, lastStatus, sessionAfter, memoryReply, host, store, cfgReads >>

\* db_path = find_sessions_db(args.path_root) / find_db(args.path_root);
\* report["dbPath"] = str(db_path) if db_path else None
FindDb ==
    /\ pc = "find_db"
    /\ LET db_path == IF IsApi THEN find_sessions_db(host) ELSE find_db(host)
       IN  IF db_path # None
           THEN /\ report' = [report EXCEPT !.dbPath = Some(db_path)]
                /\ pc' = "db_rows"
           ELSE /\ report' = [report EXCEPT
                                 !.dbPath = Some(None),
                                 !.dbSnapshot = IF IsApi
                                                THEN Some([warning |-> "sessions.db not found"])
                                                ELSE @]
                /\ pc' = "succeed"
    /\ UNCHANGED << script, qualityVars, deltaVars, streamVars, args, server_proc,
                    procCalls, written, exitCode, raised, requests, polls, lastStatus,
                    sessionAfter, memoryReply, host, store, cfgReads >>

\* The stores of the runs: the session's fact rows of DbFactRows and one accepted
\* candidate, beside a row of another session in each table.
RunStores ==
    { [ memory_facts |->
            [i \in 1..Len(rows) |-> Row("sid-1", rows[i])]
            \o << Row("sid-2", Fact("artifact_path", "C:\\Users\\amy\\Desktop", "active")) >>,
        memory_candidates |->
            << Row("sid-2", Candidate("accepted", "2024-3-1")),
               Row("sid-1", Candidate("accepted", "2024-3-1")) >> ] : rows \in DbFactRows }

\* A plausible slip: the rows read are cleared from the table.
Select_ClearsRead(db, table, sid) ==
    LET OfSession(r) == r.session_id = sid
        Others(r) == r.session_id # sid
        hit == SelectSeq(db[table], OfSession)
    IN  [ db |-> [db EXCEPT ![table] = SelectSeq(db[table], Others)],
          rows |-> [i \in 1..Len(hit) |-> hit[i].cols] ]

\* cur.execute("SELECT ... FROM <table> WHERE session_id = ? ORDER BY ...", (sid,))
\* and cur.fetchall(): the tables after the statement and the rows it returns. The
\* tables are kept in the order of the ORDER BY clauses.
Select(db, table, sid) ==
    LET OfSession(r) == r.session_id = sid
        hit == SelectSeq(db[table], OfSession)
    IN  [ db |-> db, rows |-> [i \in 1..Len(hit) |-> hit[i].cols] ]

\* LIMIT 200 of db_memory_rows, LIMIT 80 of read_db_snapshot
CandidateLimit == IF IsApi THEN 200 ELSE 80

\* db_memory_rows of cfpm_api_eval.py and read_db_snapshot of cfpm_resume_eval.py:
\* two SELECT statements on the connection, which is then closed.
db_memory_rows(db, sid) ==
    LET f == Select(db, "memory_facts", sid)
        c == Select(f.db, "memory_candidates", sid)
    IN  [ db |-> c.db, facts |-> f.rows, candidates |-> FirstN(c.rows, CandidateLimit) ]

\* db_rows = db_memory_rows(db_path, session_id); report["dbSnapshot"] = {...} /
\* report["db"] = read_db_snapshot(db_path, sid)
ReadDbRows ==
    /\ pc = "db_rows"
    /\ \/ /\ Raise(Exception("OperationalError", "no such table: memory_facts"))
          /\ UNCHANGED << dbRows, report, store, cfgReads >>
       \/ LET out == db_memory_rows(store, report.sessionId[1])
          IN  /\ store' = out.db
              /\ dbRows' = out.facts
              /\ report' = [report EXCEPT !.dbSnapshot =
                               Some([ factRows |-> Len(out.facts),
                                      candidateRows |-> Len(out.candidates) ])]
              /\ pc' = IF IsApi THEN "delta" ELSE "succeed"
              /\ UNCHANGED raised
    /\ UNCHANGED << script, qualityVars, delta, streamVars, args, server_proc,
                    procCalls, written, exitCode, requests, polls, lastStatus,
                    sessionAfter, memoryReply, host, cfgReads >>

\* The end of the try block: report["success"] = True.
Succeed ==
    /\ pc = "succeed"
    /\ report' = [report EXCEPT !.success = Some(TRUE),
                                !.finishedAt = IF IsApi THEN TRUE ELSE @]
    /\ pc' = "finally"
    /\ UNCHANGED << script, qualityVars, deltaVars, streamVars, args, server_proc,
                    procCalls, written, exitCode, raised, requests, polls, lastStatus, sessionAfter, memoryReply, host, store, cfgReads >>

\* A plausible slip: the handler records the failure without its error text.
Except_ErrorNotRecorded ==
    /\ pc = "except"
    /\ report' = [report EXCEPT !.success = Some(FALSE),
                                !.finishedAt = IF IsApi THEN TRUE ELSE @]
    /\ pc' = "finally"
    /\ UNCHANGED << script, qualityVars, deltaVars, streamVars, args, server_proc,
                    procCalls, written, exitCode, raised, requests, polls, lastStatus,
                    sessionAfter, memoryReply, host, store, cfgReads >>

\* except Exception as exc: report["success"] = False; report["error"] = ...
Except ==
    /\ pc = "except"
    /\ report' = [report EXCEPT !.success = Some(FALSE),
                                !.error = Some(ErrorText(raised[1])),
                                !.finishedAt = IF IsApi THEN TRUE ELSE @]
    /\ pc' = "finally"
    /\ UNCHANGED << script, qualityVars, deltaVars, streamVars, args, server_proc,
                    procCalls, written, exitCode, raised, requests, polls, lastStatus, sessionAfter, memoryReply, host, store, cfgReads >>

Cleanup_KillOnly(proc, exited) == IF proc = None THEN <<>> ELSE << "kill" >>

\* The calls the finally block makes on the child, with the outcome of the wait:
\* none when no child was spawned; else terminate, then wait(timeout=8), which
\* returns when the child has exited in time and raises ("wait_timeout") when it
\* has not, and then kill.
Cleanup(proc, exited) ==
    IF proc = None THEN <<>>
    ELSE IF exited THEN << "terminate", "wait" >>
    ELSE << "terminate", "wait_timeout", "kill" >>

\* finally: terminate the child if one was spawned, wait for it, kill it when the
\* wait fails. cfpm_resume_eval.py sets report["finishedAt"] here.
Finally ==
    /\ pc = "finally"
    /\ report' = [report EXCEPT !.finishedAt = TRUE]
    /\ \E exited \in BOOLEAN : procCalls' = Cleanup(server_proc, exited)
    /\ pc' = "write"
    /\ UNCHANGED << script, qualityVars, deltaVars, streamVars, args, server_proc,
                    written, exitCode, raised, requests, polls, lastStatus, sessionAfter, memoryReply, host, store, cfgReads >>

\* output_path.write_text(json.dumps(report, ...))
WriteReport ==
    /\ pc = "write"
    /\ written' = Some([ report |-> report, quality |-> quality, apiDbFactDelta |-> delta ])
    /\ pc' = "exit"
    /\ UNCHANGED << script, qualityVars, deltaVars, streamVars, args, server_proc,
                    procCalls, report, exitCode, raised, requests, polls, lastStatus, sessionAfter, memoryReply, host, store, cfgReads >>

\* print(...); return 0 if report.get("success") else 1
Return ==
    /\ pc = "exit"
    /\ exitCode' = Some(ExitStatus(report.success))
    /\ pc' = "done"
    /\ UNCHANGED << script, qualityVars, deltaVars, streamVars, args, server_proc,
                    procCalls, report, written, raised, requests, polls, lastStatus, sessionAfter, memoryReply, host, store, cfgReads >>

(***************************************************************************)
(* The store locators on their own, over every machine of Hosts.            *)
(***************************************************************************)
LocateInit ==
    /\ script \in { "api", "resume" }
    /\ facts = <<>> /\ candidates = <<>> /\ toolGates = <<>> /\ commands = <<>>
    /\ quality = Absent
    /\ dbRows = <<>> /\ delta = Absent
    /\ StreamIdle
    /\ pc = "find_db"
    /\ args = [no_start_server |-> TRUE, provider |-> None, model |-> None]
    /\ server_proc = None /\ procCalls = <<>>
    /\ report = NewReport(Some("sid-1"))
    /\ written = Absent /\ exitCode = Absent /\ raised = Absent
    /\ requests = {} /\ polls = 0 /\ sessionAfter = NoBody
    /\ lastStatus = NoStatus
    /\ memoryReply = Absent
    /\ host \in Hosts
    /\ store = EmptyStore
    /\ cfgReads = NoReads

LocateNext == FindDb

SpecLocate == LocateInit /\ [][LocateNext]_vars

RunInit ==
    /\ script \in { "api", "resume" }
    /\ pc = "start"
    /\ args \in [ no_start_server : BOOLEAN,
                  provider : IF IsApi THEN { None, "openai" } ELSE { None },
                  model : IF IsApi THEN { None, "gpt-4o" } ELSE { None } ]
    /\ server_proc = None /\ procCalls = <<>>
    /\ report = NewReport(IF IsApi THEN Absent ELSE Some("sid-1"))
    /\ written = Absent /\ exitCode = Absent /\ raised = Absent
    /\ requests = {} /\ polls = 0 /\ sessionAfter = NoBody
    /\ lastStatus = NoStatus
    /\ memoryReply = Absent
    /\ host \in RunHosts
    /\ store \in RunStores
    /\ cfgReads = NoReads
    /\ facts = <<>> /\ candidates = <<>> /\ toolGates = <<>> /\ commands = <<>>
    /\ quality = Absent
    /\ dbRows = <<>> /\ delta = Absent
    /\ StreamIdle

RunNext ==
    \/ StartServer
    \/ WaitForStatus
    \/ WaitStatus
    \/ ReadCfgValues
    \/ SelectProviderModel
    \/ AgentStart
    \/ UpdateProvider
    \/ AgentResume
    \/ OpenReply
    \/ ReadLine(RunLines, MaxRunLines)
    \/ StreamClosed
    \/ Tick
    \/ ReadTimesOut
    \/ TurnReturns
    \/ TurnRaises
    \/ ReadSession
    \/ ReadFacts
    \/ ReadCandidates
    \/ ReadToolGates
    \/ SnapshotCommands
    \/ Evaluate
    \/ FindDb
    \/ ReadDbRows
    \/ CrossValidate
    \/ Succeed
    \/ Except
    \/ Finally
    \/ WriteReport
    \/ Return

SpecRun == RunInit /\ [][RunNext]_vars

(***************************************************************************)
(* Claims about the decoders, under SpecDecode.                             *)
(***************************************************************************)
\* What each line of Lines is, read off the line itself: an event of the given
\* type, a JSON value that is no object, an object without a type, or a line to
\* skip (empty, without the data marker, without payload, malformed JSON).
Meaning(raw) ==
    CASE raw = "data: {\"type\":\"Message\"}\n" -> "Message"
      [] raw = " data:{\"type\":\"Finish\",\"reason\":\"stop\"} \r\n" -> "Finish"
      [] raw = "data: {\"type\":\"Error\",\"error\":\"boom\"}\n" -> "Error"
      [] raw = "data: 42\n" -> "nonobject"
      [] raw = "data: {}\n" -> "untyped"
      [] OTHER -> "skipped"

IsEventLine(raw) == Meaning(raw) \in {"Message", "Finish", "Error"}

EventOfLine(raw) ==
    CASE Meaning(raw) = "Message" -> JsonObject("Message", None, None)
      [] Meaning(raw) = "Finish" -> JsonObject("Finish", None, "stop")
      [] Meaning(raw) = "Error" -> JsonObject("Error", "boom", None)

\* The events of the lines ls, in arrival order: as stream_reply returns them
\* (the objects) and as reply_sse returns them (their types).
EventsOfLines(ls) ==
    LET sel == SelectSeq(ls, IsEventLine)
    IN  [i \in 1..Len(sel) |-> IF script = "api" THEN EventOfLine(sel[i])
                                                 ELSE Meaning(sel[i])]

Collected == IF script = "api" THEN events ELSE sse.eventTypes

\* C1: when the lines sent are valid non-terminal events and skipped lines, then
\* a Finish event (line k), then any further lines, and the timeout has not
\* elapsed, a decoder that has read line k has returned, has read nothing after
\* it, and holds exactly the events of lines 1..k in arrival order.
C1_EventsUpToFinish ==
    \A k \in 1..Len(wire) :
        ( /\ Meaning(wire[k]) = "Finish"
          /\ \A i \in 1..(k - 1) : Meaning(wire[i]) \in {"Message", "skipped"}
          /\ ~ expired
          /\ nread >= k )
        => /\ rstate = "returned"
           /\ nread = k
           /\ Collected = EventsOfLines(SubSeq(wire, 1, k))

\* C1's case: a malformed line and a Message, then the Finish, then one more
\* Message that is sent after the decoder has returned.
C1_Witness ==
    /\ wire = << "data: {\"type\":\n", "data: {\"type\":\"Message\"}\n",
                 " data:{\"type\":\"Finish\",\"reason\":\"stop\"} \r\n",
                 "data: {\"type\":\"Message\"}\n" >>
    /\ rstate = "returned"
    /\ Len(Collected) = 2

(***************************************************************************)
(* Claims about the cross-validation, under SpecDelta.                      *)
(***************************************************************************)
KeyOf(f) == << f.category, f.content, f.status, f.source >>
ApiKeys == { KeyOf(facts[i]) : i \in 1..Len(facts) }
DbKeys == { KeyOf(dbRows[i]) : i \in 1..Len(dbRows) }
Range(s) == { s[i] : i \in 1..Len(s) }
ApiOnly == Range(delta[1].apiOnly)
DbOnly == Range(delta[1].dbOnly)

\* C4 as stated: apiOnly and dbOnly are disjoint, and apiOnly, dbOnly and the
\* intersection of the two key sets together are all the keys of both sources.
C4_SymmetricDifference_AsStated ==
    delta # Absent =>
        /\ ApiOnly \cap DbOnly = {}
        /\ ApiOnly \cup DbOnly \cup (ApiKeys \cap DbKeys) = ApiKeys \cup DbKeys

\* C4 as amended: apiOnly and dbOnly are disjoint, apiOnly holds only keys the
\* store lacks and dbOnly only keys the API lacks, each holds the mismatching
\* keys of its side up to the cap of 20, and when neither side has more than 20
\* mismatching keys, apiOnly, dbOnly and the intersection together are all the
\* keys of both sources.
C4_SymmetricDifference ==
    delta # Absent =>
        /\ ApiOnly \cap DbOnly = {}
        /\ ApiOnly \subseteq ApiKeys \ DbKeys
        /\ DbOnly \subseteq DbKeys \ ApiKeys
        /\ Cardinality(ApiOnly) = IF Cardinality(ApiKeys \ DbKeys) > 20 THEN 20
                                  ELSE Cardinality(ApiKeys \ DbKeys)
        /\ Cardinality(DbOnly) = IF Cardinality(DbKeys \ ApiKeys) > 20 THEN 20
                                 ELSE Cardinality(DbKeys \ ApiKeys)
        /\ ( Cardinality(ApiKeys \ DbKeys) <= 20 /\ Cardinality(DbKeys \ ApiKeys) <= 20 )
             => ApiOnly \cup DbOnly \cup (ApiKeys \cap DbKeys) = ApiKeys \cup DbKeys

\* C4's case: the two sources share keys and each holds keys of its own, the
\* store no more than 20 and the API more than 20, of which 20 are reported.
C4_Witness ==
    /\ delta # Absent
    /\ ApiKeys \cap DbKeys # {}
    /\ DbOnly # {} /\ DbOnly = DbKeys \ ApiKeys
    /\ Cardinality(ApiKeys \ DbKeys) > 20
    /\ Cardinality(ApiOnly) = 20

(***************************************************************************)
(* Claims about the quality evaluator, under SpecQuality.                   *)
(***************************************************************************)
Evaluated == quality # Absent
Report == quality[1]
HasIssue(code) == \E i \in 1..Len(Report.issues) : Report.issues[i] = code

\* The claims' own reading of the words they use.
StatusIsActive(f) == f.status = "active"
StatusIsActiveAnyCase(f) == Lower(Chars(f.status)) = Chars("active")
CategoryIsArtifact(f) == Contains(Lower(Chars(f.category)), Chars("artifact"))
CategoryIsInvalidPath(f) == Contains(Lower(Chars(f.category)), Chars("invalid_path"))
SameContentAnyCase(f, g) ==
    IsStr(f.content) /\ IsStr(g.content) /\ Lower(Chars(f.content)) = Lower(Chars(g.content))
EvidenceLists(q) == << q.dateNoiseFacts, q.wrongDesktopArtifacts, q.oneDriveDesktopArtifacts >>
InSeq(x, s) == \E i \in 1..Len(s) : s[i] = x

\* C2 as stated: a fact whose status is not "active" is not counted in
\* activeFactCount, activeArtifactCount or activeInvalidPathCount and is in no
\* evidence list.
C2_NonActiveExcluded_AsStated ==
    Evaluated =>
        /\ Report.activeFactCount <= Len(SelectSeq(facts, StatusIsActive))
        /\ \A k \in 1..3 : \A i \in 1..Len(EvidenceLists(Report)[k]) :
               StatusIsActive(EvidenceLists(Report)[k][i])

\* C2 as amended: a fact whose status is not "active" compared case-insensitively
\* is not counted in the three counts, is in no evidence list, and the report is
\* the one the evaluator gives with those facts removed (so such a fact neither
\* triggers an issue nor serves as the invalid-path marker that suppresses one).
C2_NonActiveExcluded ==
    Evaluated =>
        LET live == SelectSeq(facts, StatusIsActiveAnyCase)
        IN  /\ Report.activeFactCount = Len(live)
            /\ Report.activeArtifactCount <= Len(live)
            /\ Report.activeInvalidPathCount <= Len(live)
            /\ \A k \in 1..3 : \A i \in 1..Len(EvidenceLists(Report)[k]) :
                   StatusIsActiveAnyCase(EvidenceLists(Report)[k][i])
            /\ Report = EvaluateQuality(live, candidates, toolGates, commands)

\* C2's case: evaluated facts that hold an active wrong-desktop artifact whose only
\* invalid-path marker is not active, so the issue is reported.
C2_Witness ==
    /\ Evaluated
    /\ InSeq(Fact("artifact_path", "C:\\Users\\bob\\Desktop", "active"), facts)
    /\ InSeq(Fact("invalid_path", "C:\\Users\\bob\\Desktop", "stale"), facts)
    /\ HasIssue("wrong_desktop_without_invalid_marker")

\* C5 as stated: wrong_desktop_without_invalid_marker is present exactly when some
\* active artifact fact with plain-user-desktop content has no active invalid_path
\* fact with case-insensitively identical content.
C5_WrongDesktopIssue_AsStated ==
    Evaluated =>
        ( HasIssue("wrong_desktop_without_invalid_marker")
          <=> \E i \in 1..Len(facts) :
                 /\ StatusIsActiveAnyCase(facts[i])
                 /\ CategoryIsArtifact(facts[i])
                 /\ IsWrongDesktopContent(facts[i].content)
                 /\ ~ \E j \in 1..Len(facts) :
                        /\ StatusIsActiveAnyCase(facts[j])
                        /\ CategoryIsInvalidPath(facts[j])
                        /\ SameContentAnyCase(facts[j], facts[i]) )

\* C6 as stated: date_noise_fact_active is present iff some active fact whose
\* category is not an invalid-path marker has date-only content, and no active
\* invalid_path fact is listed in dateNoiseFacts.
C6_DateNoiseFact_AsStated ==
    Evaluated =>
        /\ HasIssue("date_noise_fact_active")
             <=> \E i \in 1..Len(facts) :
                    /\ StatusIsActiveAnyCase(facts[i])
                    /\ ~ CategoryIsInvalidPath(facts[i])
                    /\ IsDateContent(facts[i].content)
        /\ \A i \in 1..Len(Report.dateNoiseFacts) :
               ~ CategoryIsInvalidPath(Report.dateNoiseFacts[i])

\* C7 as stated: date_noise_candidate_accepted is present iff some candidate whose
\* decision is "accepted" has date-only content.
C7_DateNoiseCandidate_AsStated ==
    Evaluated =>
        ( HasIssue("date_noise_candidate_accepted")
          <=> \E i \in 1..Len(candidates) :
                 /\ candidates[i].decision = "accepted"
                 /\ IsDateContent(candidates[i].content) )

\* C7 as amended: date_noise_candidate_accepted is present iff some candidate whose
\* decision is "accepted" compared case-insensitively has date-only content
\* (surrounding whitespace trimmed); whatever the facts are.
C7_DateNoiseCandidate ==
    Evaluated =>
        ( HasIssue("date_noise_candidate_accepted")
          <=> \E i \in 1..Len(candidates) :
                 /\ Lower(Chars(candidates[i].decision)) = Chars("accepted")
                 /\ IsDateContent(candidates[i].content) )

\* C7's case: an accepted date-only candidate was evaluated beside facts that
\* hold a date-only fact, and the issue is reported.
C7_Witness ==
    /\ Evaluated
    /\ candidates = << Candidate("accepted", "2024-3-1") >>
    /\ Len(facts) > 0
    /\ HasIssue("date_noise_candidate_accepted")

ContainsMarkerExactly(cmd) ==
    \E i \in 1..Len(PROBE_MARKERS) : Contains(Chars(cmd), Chars(PROBE_MARKERS[i]))
ContainsMarkerAnyCase(cmd) ==
    \E i \in 1..Len(PROBE_MARKERS) :
        Contains(Lower(Chars(cmd)), Lower(Chars(PROBE_MARKERS[i])))
HoldsOneDriveDesktopFact ==
    \E i \in 1..Len(facts) :
        /\ StatusIsActiveAnyCase(facts[i])
        /\ CategoryIsArtifact(facts[i])
        /\ IsStr(facts[i].content)
        /\ Contains(Lower(Chars(facts[i].content)), Chars("onedrive"))
        /\ EndsWith(Lower(Chars(facts[i].content)), Chars("desktop"))

\* C8 as stated: second_turn_repeated_probe_despite_memory is present iff some
\* command contains one of the fixed probe substrings and some active artifact
\* fact's content contains "onedrive" and ends with "desktop" (case-insensitively).
C8_RepeatedProbe_AsStated ==
    Evaluated =>
        ( HasIssue("second_turn_repeated_probe_despite_memory")
          <=> /\ \E i \in 1..Len(commands) : ContainsMarkerExactly(commands[i])
              /\ HoldsOneDriveDesktopFact )

\* C8 as amended: second_turn_repeated_probe_despite_memory is present iff some
\* command contains one of the fixed probe substrings compared case-insensitively
\* and some active artifact fact's content contains "onedrive" and ends with
\* "desktop" (case-insensitively).
C8_RepeatedProbe ==
    Evaluated =>
        ( HasIssue("second_turn_repeated_probe_despite_memory")
          <=> /\ \E i \in 1..Len(commands) : ContainsMarkerAnyCase(commands[i])
              /\ HoldsOneDriveDesktopFact )

\* C8's case: a command with %USERPROFILE% beside an active OneDrive desktop
\* artifact, and the issue is reported.
C8_Witness ==
    /\ Evaluated
    /\ commands = << "echo %USERPROFILE%" >>
    /\ InSeq(Fact("artifact_path", "C:\\Users\\bob\\OneDrive\\Desktop", "active"), facts)
    /\ HasIssue("second_turn_repeated_probe_despite_memory")

(***************************************************************************)
(* Claims about main(), under SpecRun.                                      *)
(***************************************************************************)
\* C9 as stated: when a /reply stream of cfpm_api_eval.py has reached its timeout
\* and no line has arrived, the streaming call has not raised (it is still
\* reading, or has returned with no event).
C9_ReplyTimeoutNotFatal_AsStated ==
    ( IsApi /\ pc \in { "turn1", "turn2" } /\ wire = <<>> /\ expired )
    => rstate # "raised"

Failed == raised # Absent

\* C10: once a step inside main's try block has raised, the run is in the
\* handler or past it; past the handler the report holds success = false and the
\* error "<kind>: <message>" of what was raised; once main has written, the file
\* holds that report; and main returns 1.
C10_FatalCaughtAndReported ==
    Failed =>
        /\ pc \in { "except", "finally", "write", "exit", "done" }
        /\ pc # "except" =>
              /\ report.success = Some(FALSE)
              /\ report.error = Some(raised[1].kind \o ": " \o raised[1].msg)
        /\ pc \in { "exit", "done" } =>
              /\ written # Absent
              /\ written[1].report = report
        /\ pc = "done" => exitCode = Some(1)

\* C10's case: the storage read of cfpm_api_eval.py raised after a child was
\* spawned, and main has returned 1 with the report written.
C10_Witness ==
    /\ IsApi
    /\ pc = "done"
    /\ raised = Some(Exception("OperationalError", "no such table: memory_facts"))
    /\ server_proc = "spawned"
    /\ written # Absent
    /\ written[1].report.error = Some("OperationalError: no such table: memory_facts")
    /\ exitCode = Some(1)

Done == pc = "done"

\* C11: when main has returned, its return value is 0 or 1, and it is 0 exactly
\* when the report, in memory and as written to the file, holds success = true.
C11_ExitStatusIffSuccess ==
    Done =>
        /\ exitCode \in { Some(0), Some(1) }
        /\ written # Absent
        /\ written[1].report.success = report.success
        /\ exitCode = Some(0) <=> report.success = Some(TRUE)

\* C11's case: a run of cfpm_resume_eval.py that succeeded, wrote its report and
\* returned 0.
C11_Witness ==
    /\ ~ IsApi
    /\ Done
    /\ written # Absent
    /\ written[1].report.success = Some(TRUE)
    /\ exitCode = Some(0)

Spawned == server_proc = "spawned"
Called(call) == \E i \in 1..Len(procCalls) : procCalls[i] = call
CleanedUp == pc \in { "write", "exit", "done" }

\* C12: no call is made on a child that was not spawned; once main is past its
\* finally block with a child spawned, whether the run failed or succeeded, the
\* first call made on the child is terminate, every kill comes after it, and
\* the child was killed exactly when the wait after terminate timed out.
C12_ChildTerminatedBeforeExit ==
    /\ ~ Spawned => procCalls = <<>>
    /\ ~ CleanedUp => procCalls = <<>>
    /\ ( Spawned /\ CleanedUp ) =>
          /\ procCalls # <<>>
          /\ procCalls[1] = "terminate"
          /\ \A i \in 1..Len(procCalls) :
                procCalls[i] = "kill" => \E j \in 1..(i - 1) : procCalls[j] = "terminate"
          /\ Called("kill") <=> Called("wait_timeout")
          /\ Called("wait_timeout") => procCalls[Len(procCalls)] = "kill"

\* C12's case: the readiness wait failed after the child was spawned, the child
\* did not exit within the grace period and was killed, and main has returned.
C12_Witness ==
    /\ Spawned
    /\ Done
    /\ raised # Absent /\ raised[1].kind = "TimeoutError"
    /\ report.steps = <<>> /\ report.server = Absent
    /\ procCalls = << "terminate", "wait_timeout", "kill" >>

SnapshotRequests ==
    { JsonRequest("/sessions/{id}"),
      JsonRequest("/sessions/{id}/memory/facts"),
      JsonRequest("/sessions/{id}/memory/candidates"),
      JsonRequest("/sessions/{id}/memory/tool-gates") }

\* A streaming call is in flight: its request is sent and it has not yet
\* returned to main or raised into it.
InFlight == rstate # "idle"

\* C13: in cfpm_api_eval.py a streaming call is in flight only at the step of
\* turn 1 or of turn 2; while turn 2's call is in flight turn 1's call has
\* returned and its result is recorded; and once a session or memory read has been
\* sent, both turns' calls have returned, their results are recorded and no
\* streaming call is in flight.
C13_TurnsInOrder ==
    IsApi =>
        /\ InFlight => pc \in { "turn1", "turn2" }
        /\ pc = "turn1" => report.turn1 = Absent /\ report.turn2 = Absent
        /\ ( pc = "turn2" /\ InFlight ) => report.turn1 # Absent /\ report.turn2 = Absent
        /\ report.turn2 # Absent => report.turn1 # Absent
        /\ requests \cap SnapshotRequests # {} =>
              /\ report.turn1 # Absent
              /\ report.turn2 # Absent
              /\ ~ InFlight

\* C13's case: turn 1 ended at a Finish, turn 2 ended with the server closing
\* the stream after one Message, and the session read has been sent.
C13_Witness ==
    /\ IsApi
    /\ pc = "facts"
    /\ JsonRequest("/sessions/{id}") \in requests
    /\ report.turn1 # Absent /\ report.turn1[1].eventTypes = << "Finish" >>
    /\ report.turn2 # Absent /\ report.turn2[1].eventTypes = << "Message" >>

\* C14 as stated: every request sent to the service, the /status polls included,
\* carries the shared-secret header.
C14_AllRequestsCarrySecret_AsStated ==
    \A r \in requests : r.secret

ReadinessTimeout ==
    Exception("TimeoutError",
              IF IsApi THEN "server /status did not become ready in time"
                       ELSE "/status not ready")

\* What one round of the readiness wait may do: go round again, only when its
\* poll did not answer 200 (a transport error included), nothing was raised and
\* the deadline had not passed; return to main, only when its poll answered 200;
\* or raise the readiness timeout, only when the deadline had passed and no poll
\* answered 200.
ReadinessRound ==
    pc = "wait" =>
        \/ /\ pc' = "wait"
           /\ lastStatus'.reply \in { "503", "error" }
           /\ ~ lastStatus'.late
           /\ polls' = polls + 1
           /\ raised' = Absent
        \/ /\ pc' \in { "select", "resume" }
           /\ lastStatus'.reply = "200"
           /\ raised' = Absent
        \/ /\ pc' = "except"
           /\ raised' = Some(ReadinessTimeout)
           /\ lastStatus'.late
           /\ lastStatus'.reply # "200"

\* C15: main is told the service is ready only after a /status poll answered 200;
\* every round of the wait either returns on a 200, goes round again after a poll
\* that failed (its transport error swallowed) while the deadline has not passed,
\* or raises the readiness timeout once the deadline has passed, so that the wait
\* ends when the deadline passes.
C15_ReadinessProbe ==
    /\ [] ( ( report.steps # <<>> \/ report.server # Absent ) => lastStatus.reply = "200" )
    /\ [][ReadinessRound]_vars

\* C15's case: the wait has polled twice without a 200, the last poll raised a
\* transport error that was swallowed, and the wait is still polling.
C15_Witness ==
    /\ pc = "wait"
    /\ polls = 2
    /\ lastStatus = [reply |-> "error", late |-> FALSE]
    /\ raised = Absent

\* The issue codes in the order of their declaration.
IssueOrder ==
    << "date_noise_fact_active",
       "date_noise_candidate_accepted",
       "wrong_desktop_without_invalid_marker",
       "second_turn_repeated_probe_despite_memory",
       "tool_gate_reused_wrong_path" >>

\* C16: the issues list is the fixed-order list of the five codes cut down to
\* the codes reported (so each code occurs at most once and in that order), and
\* each code is reported on its own evidence, whatever the other heuristics
\* found: the date-fact, date-candidate and tool-gate codes exactly when their
\* evidence list is non-empty, the probe code exactly when a probe command was
\* counted and a OneDrive desktop artifact is listed, the wrong-desktop code only
\* when a wrong-desktop artifact is listed.
C16_IssuesOrderedOncePerTrigger ==
    Evaluated =>
        /\ Report.issues = SelectSeq(IssueOrder, HasIssue)
        /\ HasIssue("date_noise_fact_active") <=> Report.dateNoiseFacts # <<>>
        /\ HasIssue("date_noise_candidate_accepted") <=> Report.acceptedDateCandidates # <<>>
        /\ HasIssue("wrong_desktop_without_invalid_marker")
              => Report.wrongDesktopArtifacts # <<>>
        /\ HasIssue("second_turn_repeated_probe_despite_memory")
              <=> ( Report.probeStatsSecondTurn.probeCount > 0
                    /\ Report.oneDriveDesktopArtifacts # <<>> )
        /\ HasIssue("tool_gate_reused_wrong_path") <=> Report.wrongToolGatePaths # <<>>

\* C16's case: all five heuristics triggered on one input and all five codes are
\* reported together.
C16_Witness ==
    /\ Evaluated
    /\ Len(Report.issues) = 5
    /\ Report.issues[1] = "date_noise_fact_active"
    /\ Report.issues[5] = "tool_gate_reused_wrong_path"

\* The path of gate g, surrounding whitespace trimmed, is a string that matches
\* the plain-user-desktop pattern.
GatePathIsPlainDesktop(g) == IsStr(g.path) /\ DesktopWrongMatch(Strip(Chars(g.path)))

\* C17: tool_gate_reused_wrong_path is present iff some tool gate's path (a
\* string, surrounding whitespace trimmed) matches the plain-user-desktop
\* pattern, whatever the facts, the candidates and the commands are; the gates
\* listed as evidence are exactly those gates.
C17_ToolGateIssue ==
    Evaluated =>
        /\ HasIssue("tool_gate_reused_wrong_path")
              <=> \E i \in 1..Len(toolGates) : GatePathIsPlainDesktop(toolGates[i])
        /\ Report.wrongToolGatePaths = SelectSeq(toolGates, GatePathIsPlainDesktop)

\* C17's case: a gate keyed on bob's plain desktop beside an active invalid_path
\* marker for the same path: the marker suppresses the wrong-desktop issue of the
\* artifact, not the gate's issue.
C17_Witness ==
    /\ Evaluated
    /\ InSeq(Fact("artifact_path", "C:\\Users\\bob\\Desktop", "active"), facts)
    /\ InSeq(Fact("invalid_path", "c:\\users\\bob\\desktop", "active"), facts)
    /\ InSeq([path |-> "C:\\Users\\bob\\Desktop"], toolGates)
    /\ ~ HasIssue("wrong_desktop_without_invalid_marker")
    /\ HasIssue("tool_gate_reused_wrong_path")

(***************************************************************************)
(* C18: the three memory reads.                                             *)
(***************************************************************************)
\* request_json returned None (no body) or an empty list.
MissingOrEmpty(resp) == (~ resp.body) \/ resp.json = <<>>

\* The step is a memory read at p to which request_json returned a missing or
\* empty answer.
ReadGotNothing(p) ==
    /\ pc = p
    /\ memoryReply' # Absent
    /\ MissingOrEmpty(memoryReply'[1])

AfterGates == IF IsApi THEN "commands" ELSE "find_db"

\* C18: a memory read that is answered with no body or an empty list leaves its
\* list empty, raises nothing and moves on to the next step; no later step
\* changes a list, so that quality evaluation sees it empty.
C18_MissingReadIsEmptyList ==
    [][ /\ ReadGotNothing("facts")
           => facts' = <<>> /\ raised' = Absent /\ pc' = "candidates"
        /\ ReadGotNothing("candidates")
           => candidates' = <<>> /\ raised' = Absent /\ pc' = "gates"
        /\ ReadGotNothing("gates")
           => toolGates' = <<>> /\ raised' = Absent /\ pc' = AfterGates
        /\ facts' # facts => pc = "facts"
        /\ candidates' # candidates => pc = "candidates"
        /\ toolGates' # toolGates => pc = "gates"
        /\ (pc = "evaluate" /\ pc' # pc)
           => quality' = Some(EvaluateQuality(facts, candidates, toolGates, commands))
      ]_vars

\* C18's case: a run of cfpm_api_eval.py whose three memory reads were all
\* answered with nothing (the last one with no body at all) went through quality
\* evaluation on three empty lists and returned with success = true.
C18_Witness ==
    /\ Done
    /\ IsApi
    /\ memoryReply = Some(NoBody)
    /\ facts = <<>> /\ candidates = <<>> /\ toolGates = <<>>
    /\ Evaluated
    /\ Report.activeFactCount = 0 /\ Report.issues = <<>>
    /\ report.success = Some(TRUE)
    /\ exitCode = Some(0)

(***************************************************************************)
(* C19: the store locators.                                                 *)
(***************************************************************************)
Located == report.dbPath # Absent

\* The claim's own reading: the first location that exists, in the order
\* explicit root, environment-provided root, application-data root, hardcoded
\* path; none when none of them exists.
StatedStore(h) ==
    IF h.path_root # None /\ UnderRoot(h.path_root) \in h.exists
        THEN UnderRoot(h.path_root)
    ELSE IF h.PATH_ROOT # None /\ UnderRoot(h.PATH_ROOT) \in h.exists
        THEN UnderRoot(h.PATH_ROOT)
    ELSE IF h.APPDATA # None /\ UnderAppData(h.APPDATA) \in h.exists
        THEN UnderAppData(h.APPDATA)
    ELSE IF HardcodedDb \in h.exists
        THEN HardcodedDb
    ELSE None

\* C19 as stated: the locator of either script returns the first existing store
\* in the order explicit root, environment-provided root, application-data
\* root, hardcoded path, and none only when none of the four exists.
C19_LocatorOrder_AsStated == Located => report.dbPath = Some(StatedStore(host))

(***************************************************************************)
(* C20: the terminal event of a decoded stream, under SpecDecode.           *)
(***************************************************************************)
\* The type of a collected event: stream_reply collects the objects, reply_sse
\* their types.
TypeOf(e) == IF script = "api" THEN e.type ELSE e

IsTerminalEvent(e) == TypeOf(e) \in {"Finish", "Error"}

IsTerminalLine(raw) == Meaning(raw) \in {"Finish", "Error"}

\* The place of the first terminal line among the lines sent.
FirstTerminalLine ==
    CHOOSE k \in 1..Len(wire) :
        /\ IsTerminalLine(wire[k])
        /\ \A i \in 1..(k - 1) : ~ IsTerminalLine(wire[i])

\* C20: at any moment, and so when the decoder returns, a Finish or Error event
\* in the collected list is its last element (hence there is at most one); and
\* once one is collected the decoder has returned and the line that carried it,
\* the first terminal line sent, is the last line it has read.
C20_TerminalEventIsLast ==
    /\ \A i \in 1..Len(Collected) :
           IsTerminalEvent(Collected[i]) => i = Len(Collected)
    /\ ( Collected # <<>> /\ IsTerminalEvent(Collected[Len(Collected)]) )
       => /\ rstate = "returned"
          /\ \E k \in 1..Len(wire) : IsTerminalLine(wire[k])
          /\ nread = FirstTerminalLine

\* C20's case: a Message, then an Error, then a Finish and one more Message that
\* the server sent after the decoder had returned on the Error.
C20_Witness ==
    /\ wire = << "data: {\"type\":\"Message\"}\n",
                 "data: {\"type\":\"Error\",\"error\":\"boom\"}\n",
                 " data:{\"type\":\"Finish\",\"reason\":\"stop\"} \r\n",
                 "data: {\"type\":\"Message\"}\n" >>
    /\ rstate = "returned"
    /\ nread = 2
    /\ Len(Collected) = 2
    /\ TypeOf(Collected[2]) = "Error"

(***************************************************************************)
(* C21: data lines whose payload is JSON but no object, under SpecDecode.   *)
(***************************************************************************)
\* The step reads a line whose payload is valid JSON but not an object.
ReadsNonObject ==
    /\ nread' = nread + 1
    /\ Meaning(wire'[nread']) = "nonobject"

\* C21 as stated: in both decoders the read of such a line collects nothing and
\* raises nothing, and, the timeout not elapsed, leaves the loop reading.
C21_NonObjectSkipped_AsStated ==
    [][ ReadsNonObject
        => /\ Collected' = Collected
           /\ rstate' # "raised"
           /\ exc' = None
           /\ ~ expired => rstate' = "open"
      ]_vars

(***************************************************************************)
(* C22: the wall-clock timeout of a streaming call, under SpecDecode.       *)
(***************************************************************************)
\* The step takes a line off the response after the call's timeout has elapsed.
ReadsLate ==
    /\ expired
    /\ nread' = nread + 1

\* C22 as stated: in both decoders a line that arrives after the timeout has
\* elapsed ends the read loop and adds nothing to the result, whatever it is.
C22_NothingAfterTimeout_AsStated ==
    [][ ReadsLate => Collected' = Collected /\ rstate' = "returned" ]_vars

(***************************************************************************)
(* C23: no store on the machine, under SpecRun.                             *)
(***************************************************************************)
\* The run has looked for the store on a machine that has none.
LookedForMissingStore == host.exists = {} /\ report.dbPath # Absent

\* C23: once the locator has run on a machine without a store, the report holds
\* dbPath = null (and, in cfpm_api_eval.py, the dbSnapshot warning), no storage
\* row was read and no delta computed, nothing is raised, and the run is at the
\* end of the try block or past it with success = true and no error.
C23_MissingStoreSkipped ==
    LookedForMissingStore
    => /\ report.dbPath = Some(None)
       /\ report.dbSnapshot = IF IsApi THEN Some([warning |-> "sessions.db not found"])
                                       ELSE Absent
       /\ dbRows = <<>> /\ delta = Absent
       /\ raised = Absent /\ report.error = Absent
       /\ pc \in {"succeed", "finally", "write", "exit", "done"}
       /\ pc # "succeed" => report.success = Some(TRUE)
       /\ pc = "done" => exitCode = Some(0)

\* C23's case: a finished run of cfpm_api_eval.py on a machine without a store:
\* quality was evaluated, the report carries the warning and success = true.
C23_Witness ==
    /\ Done
    /\ IsApi
    /\ LookedForMissingStore
    /\ Evaluated
    /\ report.dbSnapshot = Some([warning |-> "sessions.db not found"])
    /\ written # Absent
    /\ written[1].report.success = Some(TRUE)

(***************************************************************************)
(* C24: the storage file, under SpecRun.                                    *)
(***************************************************************************)
\* The rows of a table that belong to the session, as columns.
SessionRows(table, sid) ==
    LET OfSession(r) == r.session_id = sid
        hit == SelectSeq(store[table], OfSession)
    IN  [i \in 1..Len(hit) |-> hit[i].cols]

\* The step is the storage read, returning rows.
ReadsStore == pc = "db_rows" /\ raised' = Absent

\* C24: no step of a run changes memory_facts or memory_candidates, whatever the
\* run's outcome; and the storage read returns the rows of the run's own session
\* and of no other.
C24_StoreNeverWritten ==
    [][ /\ store' = store
        /\ ReadsStore
           => /\ dbRows' = SessionRows("memory_facts", report.sessionId[1])
              /\ report'.dbSnapshot[1].candidateRows
                    = Len(SessionRows("memory_candidates", report.sessionId[1]))
      ]_vars

\* C24's case: a finished run that has read a fact row and a candidate row of
\* its session out of a store that also holds rows of another session.
C24_Witness ==
    /\ Done
    /\ report.dbPath = Some(HardcodedDb)
    /\ report.dbSnapshot = Some([factRows |-> 1, candidateRows |-> 1])
    /\ Len(store.memory_facts) = 2
    /\ Len(store.memory_candidates) = 2

(***************************************************************************)
(* C25: the server executable is missing, under SpecRun.                    *)
(***************************************************************************)
\* The run was asked to spawn the server and did not find the executable.
ExeMissing ==
    /\ ~ args.no_start_server
    /\ raised = Some(Exception("FileNotFoundError", ExeNotFoundMessage))

\* C25: from the moment the missing executable is noticed, no child has been
\* spawned, no HTTP request has been sent and no call is made on a child; once
\* the handler has run the report holds success = false and the error, and the
\* run returns 1 with that report written.
C25_MissingExecutable ==
    ExeMissing
    => /\ server_proc = None
       /\ requests = {}
       /\ procCalls = <<>>
       /\ pc \in {"except", "finally", "write", "exit", "done"}
       /\ pc # "except"
          => /\ report.success = Some(FALSE)
             /\ report.error = Some(ErrorText(raised[1]))
       /\ pc = "done" => exitCode = Some(1) /\ written[1].report.success = Some(FALSE)

\* C25's case: a finished run of cfpm_resume_eval.py that was to spawn a server
\* whose executable is missing.
C25_Witness ==
    /\ Done
    /\ ~ IsApi
    /\ ExeMissing
    /\ report.error = Some("FileNotFoundError: server exe missing: agimed.exe")
    /\ exitCode = Some(1)

(***************************************************************************)
(* C26: errors of the /config/read calls and of the other API calls, under  *)
(* SpecRun.                                                                 *)
(***************************************************************************)
\* Some /config/read call of the sequence returned a value.
GotValue(replies) == \E i \in 1..Len(replies) : replies[i] = "value"

\* Some /config/read call of select_provider_model raised an error.
CfgReadFailed ==
    \E i \in 1..Len(cfgReads.provider \o cfgReads.model) :
        (cfgReads.provider \o cfgReads.model)[i] = "error"

ProviderKnown == args.provider # None \/ GotValue(cfgReads.provider)
ModelKnown == args.model # None \/ GotValue(cfgReads.model)

\* The steps that call the API after readiness, the /config/read calls aside.
ApiCallSteps ==
    { "agent_start", "update_provider", "resume", "turn1", "turn2", "reply",
      "session", "facts", "candidates", "gates" }

\* C26: the /config/read calls raise nothing, whatever they meet; at its end
\* select_provider_model counts a failed read as no value: it returns the
\* argument or the configured value of each setting when one was obtained, and
\* otherwise raises the RuntimeError of an unresolved setting, never the error of
\* the read. An HTTP or transport error is raised only by the other API calls,
\* and then the run goes to the handler and records success = false with it.
C26_ConfigReadErrorsSwallowed ==
    /\ [][ /\ pc = "select" => raised' = Absent /\ pc' = "resolve"
           /\ pc = "resolve"
              => IF ProviderKnown /\ ModelKnown
                 THEN /\ raised' = Absent
                      /\ pc' = "agent_start"
                      /\ report'.provider =
                            Some(<< IF args.provider # None THEN args.provider ELSE "openai",
                                    IF args.model # None THEN args.model ELSE "gpt-4o" >>)
                 ELSE /\ raised' # Absent
                      /\ raised'[1].kind = "RuntimeError"
                      /\ pc' = "except"
           /\ (raised = Absent /\ raised' # Absent /\ raised'[1] \in ApiErrors)
              => pc \in ApiCallSteps /\ pc' = "except"
         ]_vars
    /\ [] ( ( raised # Absent /\ raised[1] \in ApiErrors /\ pc # "except" )
            => /\ report.success = Some(FALSE)
               /\ report.error = Some(ErrorText(raised[1])) )

\* C26's case: no --provider given, the first /config/read for the provider
\* raised an error and the second returned a value; select_provider_model is about
\* to return the configured provider.
C26_Witness ==
    /\ pc = "resolve"
    /\ args.provider = None
    /\ cfgReads.provider = << "error", "value" >>
    /\ CfgReadFailed
    /\ ModelKnown
    /\ raised = Absent
    /\ Resolved(args.provider, cfgReads.provider, "openai") = "openai"

(***************************************************************************)
(* C27: an Error event ends turn 1, under SpecRun.                          *)
(***************************************************************************)
\* stream_reply has returned turn 1's events and the last one is an Error.
Turn1EndsInError ==
    /\ pc = "turn1" /\ rstate = "returned"
    /\ events # <<>>
    /\ events[Len(events)].type = "Error"

\* The report holds turn 1 with an error.
Turn1Erred == report.turn1 # Absent /\ report.turn1[1].error # None

\* The steps of main before turn 2.
BeforeTurn2 ==
    { "start", "wait", "select", "resolve", "agent_start", "update_provider", "turn1" }

\* C27: when turn 1's stream ends with an Error event, main records the event's
\* error in report["turn1"], raises nothing and goes on to turn 2. A run whose
\* report holds such a turn 1 is at turn 2 or past it, and ends in failure only
\* when a later step raised: if nothing was raised, it has been through turn 2
\* and the quality evaluation by the end of the try block and records
\* success = true.
C27_Turn1ErrorDoesNotAbort ==
    /\ [][ Turn1EndsInError
           => /\ report'.turn1 = Some(TurnResult(events))
              /\ report'.turn1[1].error = events[Len(events)].error
              /\ report'.turn1[1].error # None
              /\ raised' = Absent
              /\ pc' = "turn2"
         ]_vars
    /\ [] ( Turn1Erred
            => /\ pc \notin BeforeTurn2
               /\ report.success = Some(FALSE) => raised # Absent
               /\ ( raised = Absent /\ pc \in {"finally", "write", "exit", "done"} )
                  => /\ report.turn2 # Absent
                     /\ Evaluated
                     /\ report.success = Some(TRUE)
                     /\ report.error = Absent )

\* C27's case: a finished run of cfpm_api_eval.py whose turn 1 ended with the
\* Error event "boom": turn 2 ran, the snapshot was evaluated, and the written
\* report holds success = true beside turn 1's error.
C27_Witness ==
    /\ Done
    /\ IsApi
    /\ Turn1Erred
    /\ report.turn1[1].error = "boom"
    /\ report.turn2 # Absent
    /\ Evaluated
    /\ written[1].report.success = Some(TRUE)
    /\ written[1].report.turn1[1].error = "boom"
    /\ exitCode = Some(0)

(***************************************************************************)
(* C28: what the quality report depends on, under SpecRun.                  *)
(***************************************************************************)
\* The quality report as a function of what the API returned: the three lists
\* as read, and the last commands of the session as read.
QualityOfApi ==
    EvaluateQuality(facts, candidates, toolGates,
                    LastN(ExtractToolCommands(sessionAfter), TailCap))

\* C28: on every machine and store of the pools, the evaluation step sets the
\* quality report to the value evaluate_quality takes on the API's facts,
\* candidates, tool gates and session commands; no other step sets it, the
\* lists it is computed from are set by their API reads alone, and the written
\* report carries it unchanged.
C28_QualityDependsOnApiOnly ==
    /\ [] ( written # Absent => written[1].quality = quality )
    /\ [][ /\ pc = "evaluate" => quality' = Some(QualityOfApi)
           /\ quality' # quality => pc = "evaluate"
           /\ facts' # facts => pc = "facts"
           /\ candidates' # candidates => pc = "candidates"
           /\ toolGates' # toolGates => pc = "gates"
           /\ commands' # commands => pc = "commands"
           /\ sessionAfter' # sessionAfter => pc = "session"
         ]_vars

\* C28's case: a finished run whose store holds a fact row the API did not
\* report: the difference is in the delta, and the written quality report is
\* the one of the API's lists, with the wrong-desktop artifact of the API's fact.
C28_Witness ==
    /\ Done
    /\ Evaluated
    /\ delta # Absent
    /\ delta[1].dbOnly # <<>>
    /\ facts # <<>>
    /\ Len(Report.wrongDesktopArtifacts) = 1
    /\ written[1].quality = Some(QualityOfApi)

(***************************************************************************)
(* C29: the shape of the final report, under SpecRun.                       *)
(***************************************************************************)
\* The report as written to the output file.
FinalReport == written[1].report

\* C29: the report written by a run holds success (true or false) and
\* finishedAt, and holds an error exactly when success is false; it is the
\* report main holds when it returns, and every run that has returned has
\* written one.
C29_FinalReportShape ==
    /\ written # Absent
       => /\ FinalReport.success \in { Some(TRUE), Some(FALSE) }
          /\ FinalReport.finishedAt
          /\ FinalReport.error # Absent <=> FinalReport.success = Some(FALSE)
          /\ ~ ( FinalReport.success = Some(TRUE) /\ FinalReport.error # Absent )
          /\ FinalReport = report
    /\ Done => written # Absent

\* C29's case: a finished run of cfpm_resume_eval.py whose /agent/resume call
\* met an HTTP error: the written report holds success = false, the error and
\* finishedAt.
C29_Witness ==
    /\ Done
    /\ ~ IsApi
    /\ FinalReport.success = Some(FALSE)
    /\ FinalReport.error = Some("HTTPError: HTTP Error 500: Internal Server Error")
    /\ FinalReport.finishedAt
    /\ FinalReport.resumed = Absent

=============================================================================
